---------------------------- MODULE Spec2Model ----------------------------
(***************************************************************************)
(* A model of the vector database: the in-memory Store (libraries,         *)
(* documents, chunks), the service facade above it, the Index Registry     *)
(* and the snapshot engine.                                                *)
(*                                                                         *)
(* Every repository method runs its body under the Store's reader-writer   *)
(* lock, and every Registry access runs under the Registry's lock, so one  *)
(* locked section is one atomic step here.  What a service does BETWEEN    *)
(* two locked sections is not atomic: every service operation is a         *)
(* sequence of steps of one thread, and the steps of different threads     *)
(* interleave.  Entities are Python objects: get_library and get_chunk     *)
(* hand out the object that the table holds, so a field assignment by a    *)
(* service is a write to the shared object (libHeap, chunkHeap), made      *)
(* outside any lock.                                                       *)
(***************************************************************************)
EXTENDS Integers, Sequences, FiniteSets, TLC

(***************************************************************************)
(* Bounds of the model.                                                    *)
(***************************************************************************)
NumThreads == 2        \* concurrent request threads
MaxLibs == 1           \* library ids ever generated
MaxDocs == 1           \* document ids ever generated
MaxChunks == 2         \* chunk ids ever generated
MaxK == 1              \* largest k of a search request

Threads == 1..NumThreads
LibIds == 1..MaxLibs
DocIds == 1..MaxDocs
ChunkIds == 1..MaxChunks

\* Embeddings a client sends: non-empty (the DTOs reject an empty one), of
\* two different lengths.
Embeddings == {<<1>>, <<0, 1>>}
\* Metadata dictionaries, as sets of <<key, value>> pairs with distinct keys.
Metas == {{}, {<<"lang", "en">>}}
\* Query vectors and filters of a search request.
QueryVectors == {<<0, 1>>, <<1>>}
Filters == {{}, {<<"lang", "en">>}}
\* (algorithm, metric) pairs a client asks build_index for.
BuildInputs == {<<"linear", "euclidean">>, <<"kdtree", "cosine">>, <<"bogus", "cosine">>}

None == 0              \* Library.embedding_dim unset

VARIABLES
    libraries,    \* InMemoryRepository._libraries: the ids it holds
    documents,    \* InMemoryRepository._documents: the ids it holds
    chunks,       \* InMemoryRepository._chunks: its ids in insertion order
    libHeap,      \* the Library objects ever created: id -> fields
    docHeap,      \* the Document objects ever created: id -> fields
    chunkHeap,    \* the Chunk objects ever created: id -> fields
    indices,      \* IndexService._indices: library id -> index instance
    index_meta,   \* IndexService._index_meta: library id -> {algorithm, metric}
    pc,           \* per thread: where it is in its current operation
    loc,          \* per thread: arguments and local variables of the operation
    explicit,     \* history: per library, the pair of the last explicit build
    admitted,     \* history: per library, the length of the first embedding
                  \* that a successful create_chunk stored in it
    files,        \* the snapshot file on disk
    locks,        \* the two ReaderWriterLocks: name -> its three fields
    objects,      \* the VectorIndex objects of the object-level view of the
                  \* IndexService: the objects created, and the one that
                  \* _indices refers to for each library id
    ev            \* the call that the last step completed, and its outcome

store == <<libraries, documents, chunks, libHeap, docHeap, chunkHeap>>
registry == <<indices, index_meta>>
vars == <<libraries, documents, chunks, libHeap, docHeap, chunkHeap,
          indices, index_meta, pc, loc, explicit, admitted, files, locks,
          objects, ev>>

\* the ReaderWriterLock of the InMemoryRepository (the Store) and the one of
\* the IndexService (the Registry)
LockNames == {"store", "registry"}

\* ReaderWriterLock.__init__
Unlocked == [active_readers |-> 0, writer_active |-> FALSE, waiting_writers |-> 0]

\* no VectorIndex object has been created
NoObjects == [heap |-> <<>>, ref |-> <<>>]

-----------------------------------------------------------------------------
(***************************************************************************)
(* Helpers on sequences and tables.                                        *)
(***************************************************************************)
Range(s) == {s[i] : i \in DOMAIN s}

RECURSIVE SeqFilter(_, _)
\* [x for x in s if x in keep]
SeqFilter(s, keep) ==
    IF s = <<>> THEN <<>>
    ELSE IF Head(s) \in keep THEN <<Head(s)>> \o SeqFilter(Tail(s), keep)
         ELSE SeqFilter(Tail(s), keep)

\* a slice that keeps every element
TakeAll(s, n) == s

\* s[:n]
Take(s, n) == IF n >= Len(s) THEN s ELSE SubSeq(s, 1, n)

DictPop(f, key) == [x \in DOMAIN f \ {key} |-> f[x]]
DictSet(f, key, val) == [x \in DOMAIN f \cup {key} |-> IF x = key THEN val ELSE f[x]]

\* dict[key] = value on the ordered chunk table: a new key goes last, an
\* existing key keeps its place.
ChunkUpsert(tbl, id) == IF id \in Range(tbl) THEN tbl ELSE Append(tbl, id)

NoPair == <<"none", "none">>
\* no snapshot file; a file holds the three tables as lists of dumped
\* entities and the Registry's metadata
NoFile == [exists |-> FALSE, parses |-> FALSE, libraries |-> <<>>, documents |-> <<>>,
           chunks |-> <<>>, indices |-> <<>>]
NoIndex == [kind |-> "none", metric |-> "none", ids |-> <<>>, vectors |-> <<>>]
NoEvent == [op |-> "none", t |-> 0, id |-> 0, res |-> "none",
            expected |-> 0, got |-> 0, ids |-> <<>>, pair |-> NoPair, want |-> NoPair,
            gone |-> {}, changed |-> FALSE, prev |-> "none",
            torn |-> FALSE, given |-> NoPair, replaced |-> NoPair]
Idle == [op |-> "none", lib |-> 0, doc |-> 0, chunk |-> 0, emb |-> <<>>,
         meta |-> {}, hasMeta |-> FALSE, vec |-> <<>>, k |-> 0, filters |-> {},
         idx |-> NoIndex, results |-> <<>>, kept |-> <<>>, items |-> <<>>,
         pos |-> 0, snap |-> NoFile,
         want |-> NoPair, gone |-> {}, metas |-> {}, given |-> NoPair]

Event(op, t, id, res) == [NoEvent EXCEPT !.op = op, !.t = t, !.id = id, !.res = res]

-----------------------------------------------------------------------------
(***************************************************************************)
(* Vector math (vector_index/base.py).  Scores are floats in the code; the *)
(* model compares them exactly, on integers: a cosine is the quotient      *)
(* dot / (norm q * norm v), and two cosines against the same query are     *)
(* compared through their signs and squares; a Euclidean score 1/(1+d) is  *)
(* larger exactly when the squared distance is smaller.                    *)
(***************************************************************************)
Min(a, b) == IF a <= b THEN a ELSE b
Max(a, b) == IF a >= b THEN a ELSE b

RECURSIVE SumTo(_, _)
SumTo(f, n) == IF n = 0 THEN 0 ELSE f[n] + SumTo(f, n - 1)

\* sum(x * y for x, y in zip(a, b)): zip stops at the shorter operand
dot(a, b) ==
    LET n == Min(Len(a), Len(b))
    IN  SumTo([i \in 1..n |-> a[i] * b[i]], n)

\* norm(a) squared
SqNorm(a) == dot(a, a)

\* euclidean_distance(a, b) squared
SqDist(a, b) ==
    LET n == Min(Len(a), Len(b))
    IN  SumTo([i \in 1..n |-> (a[i] - b[i]) * (a[i] - b[i])], n)

\* cosine_similarity(q, a) > cosine_similarity(q, b); a zero norm gives 0.0
CosineGreater(q, a, b) ==
    LET zq == SqNorm(q) = 0
        na == IF zq \/ SqNorm(a) = 0 THEN 0 ELSE dot(q, a)
        nb == IF zq \/ SqNorm(b) = 0 THEN 0 ELSE dot(q, b)
        da == IF SqNorm(a) = 0 THEN 1 ELSE SqNorm(a)
        db == IF SqNorm(b) = 0 THEN 1 ELSE SqNorm(b)
    IN  IF na >= 0 /\ nb < 0 THEN TRUE
        ELSE IF na < 0 /\ nb >= 0 THEN FALSE
        ELSE IF na >= 0 THEN na * na * db > nb * nb * da
        ELSE na * na * db < nb * nb * da

\* score(q, a) > score(q, b) under the index's metric
ScoreGreater(metric, q, a, b) ==
    IF metric = "cosine" THEN CosineGreater(q, a, b)
    ELSE SqDist(q, a) < SqDist(q, b)

(***************************************************************************)
(* VectorIndex (vector_index/base.py, linear.py).  An index instance is    *)
(* the record [kind, metric, ids, vectors]; build stores the lists it is   *)
(* given, and a query ranks the positions 1..Len(ids).                     *)
(***************************************************************************)
\* _validate_inputs raises ValueError: here the ids always pair the vectors
_validate_inputs_raises(vectors) ==
    vectors # <<>> /\ \E i \in DOMAIN vectors : Len(vectors[i]) # Len(vectors[1])

\* _validate_query_dim raises ValueError
_validate_query_dim_raises(vector, vectors) ==
    vectors # <<>> /\ Len(vector) # Len(vectors[1])

RECURSIVE InsertByScore_before_ties(_, _, _, _, _)
\* a sort step that puts position p in front of the positions of equal score
InsertByScore_before_ties(sorted, p, metric, q, vectors) ==
    IF sorted = <<>> THEN <<p>>
    ELSE IF ~ScoreGreater(metric, q, vectors[Head(sorted)], vectors[p])
         THEN <<p>> \o sorted
         ELSE <<Head(sorted)>>
              \o InsertByScore_before_ties(Tail(sorted), p, metric, q, vectors)

RECURSIVE InsertByScore(_, _, _, _, _)
\* one step of the stable descending sort: position p goes behind every
\* position already placed whose score is not smaller
InsertByScore(sorted, p, metric, q, vectors) ==
    IF sorted = <<>> THEN <<p>>
    ELSE IF ScoreGreater(metric, q, vectors[p], vectors[Head(sorted)])
         THEN <<p>> \o sorted
         ELSE <<Head(sorted)>> \o InsertByScore(Tail(sorted), p, metric, q, vectors)

RECURSIVE SortByScore(_, _, _, _)
\* scores.sort(key=score, reverse=True) over the positions 1..n
SortByScore(n, metric, q, vectors) ==
    IF n = 0 THEN <<>>
    ELSE InsertByScore(SortByScore(n - 1, metric, q, vectors), n, metric, q, vectors)

\* LinearIndex.query: the ids of the k best entries, best first
LinearQuery(index, vector, k) ==
    IF index.vectors = <<>> \/ k <= 0 THEN <<>>
    ELSE LET order == SortByScore(Len(index.vectors), index.metric, vector, index.vectors)
         IN  Take([i \in DOMAIN order |-> index.ids[order[i]]], k)

\* LinearIndex.query raises (the empty index answers [] before validating)
LinearQueryRaises(index, vector, k) ==
    /\ index.vectors # <<>> /\ k > 0
    /\ _validate_query_dim_raises(vector, index.vectors)

\* LinearIndex(metric).build(vectors, ids) on a fresh instance
LinearIndex(metric, vectors, ids) ==
    [kind |-> "linear", metric |-> metric, ids |-> ids, vectors |-> vectors]

(***************************************************************************)
(* KDTreeIndex (vector_index/kdtree.py).  A node is the record [none,      *)
(* point, point_id, axis, left, right]; the heap of kd_query is the set of *)
(* its (squared distance, id) entries, since heappush and heappop depend   *)
(* on nothing but the order of the entries.  Ids compare as the strings    *)
(* they are in the code, here as numbers.                                  *)
(***************************************************************************)
KDNone == [none |-> TRUE]

RECURSIVE InsertByAxis(_, _, _, _)
\* one step of the stable ascending sort on the coordinate of the axis
InsertByAxis(sorted, p, axis, points) ==
    IF sorted = <<>> THEN <<p>>
    ELSE IF points[p][axis + 1] < points[Head(sorted)][axis + 1]
         THEN <<p>> \o sorted
         ELSE <<Head(sorted)>> \o InsertByAxis(Tail(sorted), p, axis, points)

RECURSIVE SortByAxis(_, _, _)
\* combined.sort(key=lambda x: x[0][axis]) over the positions 1..n
SortByAxis(n, axis, points) ==
    IF n = 0 THEN <<>>
    ELSE InsertByAxis(SortByAxis(n - 1, axis, points), n, axis, points)

RECURSIVE build_kd(_, _, _)
build_kd(points, ids, depth) ==
    IF points = <<>> THEN KDNone
    ELSE LET k == Len(points[1])
             axis == depth % k
             combined == SortByAxis(Len(points), axis, points)
             median == Len(combined) \div 2
             lower == SubSeq(combined, 1, median)
             upper == SubSeq(combined, median + 2, Len(combined))
         IN  [none |-> FALSE,
              point |-> points[combined[median + 1]],
              point_id |-> ids[combined[median + 1]],
              axis |-> axis,
              left |-> build_kd([i \in DOMAIN lower |-> points[lower[i]]],
                                [i \in DOMAIN lower |-> ids[lower[i]]], depth + 1),
              right |-> build_kd([i \in DOMAIN upper |-> points[upper[i]]],
                                 [i \in DOMAIN upper |-> ids[upper[i]]], depth + 1)]

\* heap[0] of the heap of (-dist, id): the largest distance, then the
\* smallest id
HeapTop(heap) ==
    CHOOSE e \in heap :
        \A f \in heap : e[1] > f[1] \/ (e[1] = f[1] /\ e[2] <= f[2])

\* heappush(heap, (-dist, id)) and the heappop that keeps k entries
HeapPush(heap, entry, k) ==
    LET pushed == heap \cup {entry}
    IN  IF Cardinality(pushed) > k THEN pushed \ {HeapTop(pushed)} ELSE pushed

RECURSIVE kd_query_near_side(_, _, _, _)
\* kd_query that enters the far subtree only while the heap is not full
kd_query_near_side(node, target, k, heap) ==
    IF node.none THEN heap
    ELSE LET here == HeapPush(heap, <<SqDist(target, node.point), node.point_id>>, k)
             diff == target[node.axis + 1] - node.point[node.axis + 1]
             first == IF diff < 0 THEN node.left ELSE node.right
             second == IF diff < 0 THEN node.right ELSE node.left
             near == kd_query_near_side(first, target, k, here)
         IN  IF Cardinality(near) < k
             THEN kd_query_near_side(second, target, k, near)
             ELSE near

RECURSIVE kd_query(_, _, _, _)
\* kd_query: the heap after the visit of the subtree of node
kd_query(node, target, k, heap) ==
    IF node.none THEN heap
    ELSE LET here == HeapPush(heap, <<SqDist(target, node.point), node.point_id>>, k)
             diff == target[node.axis + 1] - node.point[node.axis + 1]
             first == IF diff < 0 THEN node.left ELSE node.right
             second == IF diff < 0 THEN node.right ELSE node.left
             near == kd_query(first, target, k, here)
         IN  IF Cardinality(near) < k \/ diff * diff < HeapTop(near)[1]
             THEN kd_query(second, target, k, near)
             ELSE near

RECURSIVE HeapSorted(_)
\* heap.sort(reverse=True) on (-dist, id): nearest first, then larger id
HeapSorted(heap) ==
    IF heap = {} THEN <<>>
    ELSE LET e == CHOOSE e \in heap :
                      \A f \in heap : e[1] < f[1] \/ (e[1] = f[1] /\ e[2] >= f[2])
         IN  <<e[2]>> \o HeapSorted(heap \ {e})

\* KDTreeIndex._dim after build
KDDim(index) == IF index.vectors = <<>> THEN 0 ELSE Len(index.vectors[1])

\* a query that never tests the length of the vector
KDTreeQueryRaises_never(index, vector, k) == FALSE

\* KDTreeIndex.query raises ValueError
KDTreeQueryRaises(index, vector, k) ==
    k > 0 /\ KDDim(index) # 0 /\ Len(vector) # KDDim(index)

\* KDTreeIndex.query: the ids it returns, nearest first
KDTreeQuery(index, vector, k) ==
    IF k <= 0 THEN <<>>
    ELSE HeapSorted(kd_query(build_kd(index.vectors, index.ids, 0), vector, k, {}))

\* KDTreeIndex().build(vectors, ids) on a fresh instance
KDTreeIndex(vectors, ids) ==
    [kind |-> "kdtree", metric |-> "euclidean", ids |-> ids, vectors |-> vectors]

(***************************************************************************)
(* LSHIndex (vector_index/lsh.py).  The planes are the unit vectors that   *)
(* random.Random(seed) draws for the seed 42 of the settings, one after    *)
(* the other for table 0, table 1, ...; they are kept here in thousandths, *)
(* which leaves the sign of every product with the small integer vectors   *)
(* of the model as the code computes it.  The numbers of planes and tables *)
(* are settings (LSH_NUM_PLANES, LSH_NUM_TABLES).                          *)
(***************************************************************************)
lsh_num_planes == 2
lsh_num_tables == 2

\* the planes drawn by rng.gauss for vectors of length dim, in draw order
LSHStream(dim) ==
    IF dim = 1
    THEN << <<-1000>>, <<-1000>>, <<-1000>>, <<1000>>, <<-1000>>, <<-1000>>,
            <<1000>>, <<-1000>>, <<-1000>>, <<1000>>, <<1000>>, <<1000>> >>
    ELSE << <<-640, -768>>, <<-157, 988>>, <<-85, -996>>, <<779, -627>>,
            <<-882, 471>>, <<196, 981>>, <<986, 166>>, <<-588, -809>>,
            <<185, 983>>, <<365, -931>>, <<344, -939>>, <<-537, 843>> >>

\* self._planes[i], i counted from 0
LSHPlanes(dim, i) ==
    [p \in 1..lsh_num_planes |-> LSHStream(dim)[i * lsh_num_planes + p]]

RECURSIVE Pow2(_)
Pow2(n) == IF n = 0 THEN 1 ELSE 2 * Pow2(n - 1)

\* LSHIndex._hash: bit i is set when the product with plane i is not negative
_hash(vec, planes) ==
    SumTo([i \in DOMAIN planes |->
              IF dot(vec, planes[i]) >= 0 THEN Pow2(i - 1) ELSE 0], Len(planes))

\* signature ^ (1 << bit)
FlipBit(signature, bit) ==
    IF (signature \div Pow2(bit)) % 2 = 1
    THEN signature - Pow2(bit) ELSE signature + Pow2(bit)

\* self._tables[i][signature] as positions of the build lists, in build order
LSHBucket(index, i, signature) ==
    LET planes == LSHPlanes(Len(index.vectors[1]), i)
    IN  SeqFilter([p \in DOMAIN index.vectors |-> p],
                  {p \in DOMAIN index.vectors : _hash(index.vectors[p], planes) = signature})

\* the buckets one table contributes: the exact signature, then the probes
LSHProbes(index, vector, i) ==
    LET signature == _hash(vector, LSHPlanes(Len(index.vectors[1]), i))
        flips == Min(2, lsh_num_planes)
    IN  LSHBucket(index, i, signature)
        \o (IF flips >= 1 THEN LSHBucket(index, i, FlipBit(signature, 0)) ELSE <<>>)
        \o (IF flips >= 2 THEN LSHBucket(index, i, FlipBit(signature, 1)) ELSE <<>>)

RECURSIVE LSHCandidates_repeating(_, _, _)
\* the candidates as a list that takes every entry of every probed bucket
LSHCandidates_repeating(index, vector, n) ==
    IF n = 0 THEN <<>>
    ELSE LSHCandidates_repeating(index, vector, n - 1) \o LSHProbes(index, vector, n - 1)

RECURSIVE LSHCandidates(_, _, _)
\* the keys of candidates, in insertion order, after the first n tables
LSHCandidates(index, vector, n) ==
    IF n = 0 THEN <<>>
    ELSE LET before == LSHCandidates(index, vector, n - 1)
             probed == LSHProbes(index, vector, n - 1)
         IN  before \o SeqFilter(probed, Range(probed) \ Range(before))

RECURSIVE SortSeqByScore(_, _, _, _)
\* scores.sort(key=score, reverse=True) over the positions of a list
SortSeqByScore(positions, metric, q, vectors) ==
    IF positions = <<>> THEN <<>>
    ELSE LET n == Len(positions)
         IN  InsertByScore(SortSeqByScore(SubSeq(positions, 1, n - 1), metric, q, vectors),
                           positions[n], metric, q, vectors)

\* LSHIndex.query raises ValueError
LSHQueryRaises(index, vector, k) ==
    k > 0 /\ index.vectors # <<>> /\ Len(vector) # Len(index.vectors[1])

\* LSHIndex.query: the ids it returns, best first
LSHQuery(index, vector, k) ==
    IF k <= 0 \/ index.vectors = <<>> THEN <<>>
    ELSE LET candidates == LSHCandidates(index, vector, lsh_num_tables)
             order == SortSeqByScore(candidates, "cosine", vector, index.vectors)
         IN  Take([i \in DOMAIN order |-> index.ids[order[i]]], k)

\* LSHIndex().build(vectors, ids) on a fresh instance
LSHIndex(vectors, ids) ==
    [kind |-> "lsh", metric |-> "cosine", ids |-> ids, vectors |-> vectors]

-----------------------------------------------------------------------------
(***************************************************************************)
(* The Store and the services above it.  A thread at "idle" starts any     *)
(* operation; an operation of several locked sections walks through its    *)
(* program points.  Ids are uuid4 values: a new entity gets an id that     *)
(* was never used, here the next unused number.                            *)
(***************************************************************************)
NewLibId == Cardinality(DOMAIN libHeap) + 1
NewDocId == Cardinality(DOMAIN docHeap) + 1
NewChunkId == Cardinality(DOMAIN chunkHeap) + 1

\* operations in flight that will generate an id when they reach their insert
InFlight(op) == Cardinality({u \in Threads : loc[u].op = op})

Goto(t, label) == pc' = [pc EXCEPT ![t] = label]
Return(t) == pc' = [pc EXCEPT ![t] = "idle"] /\ loc' = [loc EXCEPT ![t] = Idle]

\* InMemoryRepository.list_chunks on given tables: the chunks of the
\* library's documents
ChunksOf(library_id, docs, dheap, chs, cheap) ==
    LET doc_ids == {d \in docs : dheap[d].library_id = library_id}
    IN  SeqFilter(chs, {c \in Range(chs) : cheap[c].document_id \in doc_ids})

\* InMemoryRepository.list_chunks
list_chunks(library_id) == ChunksOf(library_id, documents, docHeap, chunks, chunkHeap)

\* LibraryService.create_library -> InMemoryRepository.create_library
create_library(t) ==
    /\ pc[t] = "idle"
    /\ NewLibId \in LibIds
    /\ libHeap' = libHeap @@ (NewLibId :> [embedding_dim |-> None])
    /\ libraries' = libraries \cup {NewLibId}
    /\ ev' = NoEvent
    /\ UNCHANGED <<documents, chunks, docHeap, chunkHeap, registry, pc, loc, explicit, admitted, locks, objects, files>>

\* DocumentService.create_document, first section: get_library
create_document(t, library_id) ==
    /\ pc[t] = "idle"
    /\ library_id \in DOMAIN libHeap
    /\ NewDocId + InFlight("create_document") \in DocIds
    /\ IF library_id \notin libraries
       THEN /\ ev' = Event("create_document", t, library_id, "NotFound")
            /\ UNCHANGED <<pc, loc>>
       ELSE /\ Goto(t, "cd_insert")
            /\ loc' = [loc EXCEPT ![t] = [Idle EXCEPT !.op = "create_document",
                                                      !.lib = library_id]]
            /\ ev' = NoEvent
    /\ UNCHANGED <<store, registry, explicit, admitted, locks, objects, files>>

\* DocumentService.create_document, second section: repository.create_document
cd_insert(t) ==
    /\ pc[t] = "cd_insert"
    /\ docHeap' = docHeap @@ (NewDocId :> [library_id |-> loc[t].lib])
    /\ documents' = documents \cup {NewDocId}
    /\ Return(t)
    /\ ev' = Event("create_document", t, NewDocId, "ok")
    /\ UNCHANGED <<libraries, chunks, libHeap, chunkHeap, registry, explicit, admitted, locks, objects, files>>

\* DocumentService.delete_document -> InMemoryRepository.delete_document
delete_document(t, document_id) ==
    /\ pc[t] = "idle"
    /\ document_id \in DOMAIN docHeap
    /\ LET chunks_to_delete ==
               {c \in Range(chunks) : chunkHeap[c].document_id = document_id}
       IN  chunks' = SeqFilter(chunks, Range(chunks) \ chunks_to_delete)
    /\ documents' = documents \ {document_id}
    /\ ev' = Event("delete_document", t, document_id, "ok")
    /\ UNCHANGED <<libraries, libHeap, docHeap, chunkHeap, registry, pc, loc, explicit, admitted, locks, objects, files>>

\* a delete_chunk that also drops the index of the chunk's library
delete_chunk_invalidating(t, chunk_id) ==
    /\ pc[t] = "idle"
    /\ chunk_id \in DOMAIN chunkHeap
    /\ chunks' = SeqFilter(chunks, Range(chunks) \ {chunk_id})
    /\ indices' = DictPop(indices, docHeap[chunkHeap[chunk_id].document_id].library_id)
    /\ index_meta' = DictPop(index_meta,
                             docHeap[chunkHeap[chunk_id].document_id].library_id)
    /\ ev' = Event("delete_chunk", t, chunk_id, "ok")
    /\ UNCHANGED <<libraries, documents, libHeap, docHeap, chunkHeap,
                   pc, loc, explicit, admitted, locks, objects, files>>

\* ChunkService.delete_chunk -> InMemoryRepository.delete_chunk
delete_chunk(t, chunk_id) ==
    /\ pc[t] = "idle"
    /\ chunk_id \in DOMAIN chunkHeap
    /\ chunks' = SeqFilter(chunks, Range(chunks) \ {chunk_id})
    /\ ev' = Event("delete_chunk", t, chunk_id, "ok")
    /\ UNCHANGED <<libraries, documents, libHeap, docHeap, chunkHeap, registry,
                   pc, loc, explicit, admitted, locks, objects, files>>

\* where an operation continues when _validate_embedding_dimensions returns
AfterValidate(t) == IF loc[t].op = "create_chunk" THEN "cc_insert" ELSE "uc_assign"

\* create_chunk with the test of the document's existence only
create_chunk_any_library(t, library_id, document_id, embedding, metadata) ==
    /\ pc[t] = "idle"
    /\ document_id \in DOMAIN docHeap
    /\ NewChunkId + InFlight("create_chunk") \in ChunkIds
    /\ IF document_id \notin documents
       THEN /\ ev' = [Event("create_chunk", t, library_id, "NotFound")
                         EXCEPT !.ids = <<document_id>>]
            /\ UNCHANGED <<pc, loc>>
       ELSE /\ Goto(t, IF embedding = <<>> THEN "cc_insert" ELSE "v_get_library")
            /\ loc' = [loc EXCEPT ![t] = [Idle EXCEPT !.op = "create_chunk",
                          !.lib = library_id, !.doc = document_id,
                          !.emb = embedding, !.meta = metadata]]
            /\ ev' = NoEvent
    /\ UNCHANGED <<store, registry, explicit, admitted, locks, objects, files>>

\* ChunkService.create_chunk, first section: get_document and the cross-check
create_chunk(t, library_id, document_id, embedding, metadata) ==
    /\ pc[t] = "idle"
    /\ document_id \in DOMAIN docHeap
    /\ NewChunkId + InFlight("create_chunk") \in ChunkIds
    /\ IF document_id \notin documents \/ docHeap[document_id].library_id # library_id
       THEN /\ ev' = [Event("create_chunk", t, library_id, "NotFound")
                         EXCEPT !.ids = <<document_id>>]
            /\ UNCHANGED <<pc, loc>>
       ELSE /\ Goto(t, IF embedding = <<>> THEN "cc_insert" ELSE "v_get_library")
            /\ loc' = [loc EXCEPT ![t] = [Idle EXCEPT !.op = "create_chunk",
                          !.lib = library_id, !.doc = document_id,
                          !.emb = embedding, !.meta = metadata]]
            /\ ev' = NoEvent
    /\ UNCHANGED <<store, registry, explicit, admitted, locks, objects, files>>

\* _validate_embedding_dimensions: library = repository.get_library(library_id)
v_get_library(t) ==
    /\ pc[t] = "v_get_library"
    /\ Goto(t, IF loc[t].lib \in libraries THEN "v_check" ELSE AfterValidate(t))
    /\ ev' = NoEvent
    /\ UNCHANGED <<store, registry, loc, explicit, admitted, locks, objects, files>>

\* _validate_embedding_dimensions without its raise: an embedding of any
\* length passes once the dimension is set
v_check_lenient(t) ==
    /\ pc[t] = "v_check"
    /\ Goto(t, IF libHeap[loc[t].lib].embedding_dim # None
               THEN AfterValidate(t) ELSE "v_set_dim")
    /\ ev' = NoEvent
    /\ UNCHANGED <<store, registry, loc, explicit, admitted, locks, objects, files>>

\* _validate_embedding_dimensions: the test of library.embedding_dim, read
\* from the shared Library object
v_check(t) ==
    /\ pc[t] = "v_check"
    /\ LET dim == libHeap[loc[t].lib].embedding_dim
       IN  IF dim # None
           THEN IF Len(loc[t].emb) # dim
                THEN /\ ev' = [Event(loc[t].op, t, loc[t].lib, "DimensionMismatch")
                                   EXCEPT !.expected = dim, !.got = Len(loc[t].emb)]
                     /\ Return(t)
                ELSE /\ Goto(t, AfterValidate(t))
                     /\ ev' = NoEvent
                     /\ UNCHANGED loc
           ELSE /\ Goto(t, "v_set_dim")
                /\ ev' = NoEvent
                /\ UNCHANGED loc
    /\ UNCHANGED <<store, registry, explicit, admitted, locks, objects, files>>

\* _validate_embedding_dimensions: library.embedding_dim = len(embedding), an
\* assignment to the shared Library object outside the lock
v_set_dim(t) ==
    /\ pc[t] = "v_set_dim"
    /\ libHeap' = [libHeap EXCEPT ![loc[t].lib].embedding_dim = Len(loc[t].emb)]
    /\ Goto(t, "v_update_library")
    /\ ev' = NoEvent
    /\ UNCHANGED <<libraries, documents, chunks, docHeap, chunkHeap, registry,
                   loc, explicit, admitted, locks, objects, files>>

\* _validate_embedding_dimensions: repository.update_library(library), an upsert
v_update_library(t) ==
    /\ pc[t] = "v_update_library"
    /\ libraries' = libraries \cup {loc[t].lib}
    /\ Goto(t, AfterValidate(t))
    /\ ev' = NoEvent
    /\ UNCHANGED <<documents, chunks, libHeap, docHeap, chunkHeap, registry,
                   loc, explicit, admitted, locks, objects, files>>

\* ChunkService.create_chunk, last section: repository.create_chunk
cc_insert(t) ==
    /\ pc[t] = "cc_insert"
    /\ chunkHeap' = chunkHeap @@ (NewChunkId :>
           [document_id |-> loc[t].doc, embedding |-> loc[t].emb, metadata |-> loc[t].meta])
    /\ chunks' = Append(chunks, NewChunkId)
    /\ ev' = [Event("create_chunk", t, loc[t].lib, "ok")
                 EXCEPT !.got = Len(loc[t].emb), !.ids = <<NewChunkId>>]
    /\ admitted' = IF admitted[loc[t].lib] = None /\ loc[t].emb # <<>>
                   THEN [admitted EXCEPT ![loc[t].lib] = Len(loc[t].emb)] ELSE admitted
    /\ Return(t)
    /\ UNCHANGED <<libraries, documents, libHeap, docHeap, registry, explicit, files,
                   locks, objects>>

\* ChunkService.update_chunk, first section: get_chunk.  The embedding <<>>
\* stands for "embedding is None", has_metadata = FALSE for "metadata is None".
update_chunk(t, chunk_id, embedding, has_metadata, metadata) ==
    /\ pc[t] = "idle"
    /\ chunk_id \in DOMAIN chunkHeap
    /\ embedding # <<>> \/ has_metadata
    /\ IF chunk_id \notin Range(chunks)
       THEN /\ ev' = Event("update_chunk", t, chunk_id, "NotFound")
            /\ UNCHANGED <<pc, loc>>
       ELSE /\ Goto(t, IF embedding # <<>> THEN "uc_get_document" ELSE "uc_metadata")
            /\ loc' = [loc EXCEPT ![t] = [Idle EXCEPT !.op = "update_chunk",
                          !.chunk = chunk_id, !.emb = embedding,
                          !.hasMeta = has_metadata, !.meta = metadata]]
            /\ ev' = NoEvent
    /\ UNCHANGED <<store, registry, explicit, admitted, locks, objects, files>>

\* update_chunk: document = repository.get_document(chunk.document_id)
uc_get_document(t) ==
    /\ pc[t] = "uc_get_document"
    /\ LET document_id == chunkHeap[loc[t].chunk].document_id
       IN  IF document_id \in documents
           THEN /\ loc' = [loc EXCEPT ![t].lib = docHeap[document_id].library_id]
                /\ Goto(t, "v_get_library")
           ELSE /\ Goto(t, "uc_assign")
                /\ UNCHANGED loc
    /\ ev' = NoEvent
    /\ UNCHANGED <<store, registry, explicit, admitted, locks, objects, files>>

\* update_chunk: chunk.embedding = embedding, on the shared Chunk object
uc_assign(t) ==
    /\ pc[t] = "uc_assign"
    /\ chunkHeap' = [chunkHeap EXCEPT ![loc[t].chunk].embedding = loc[t].emb]
    /\ Goto(t, IF loc[t].hasMeta THEN "uc_metadata" ELSE "uc_upsert")
    /\ ev' = NoEvent
    /\ UNCHANGED <<libraries, documents, chunks, libHeap, docHeap, registry,
                   loc, explicit, admitted, locks, objects, files>>

\* update_chunk: chunk.metadata = metadata, on the shared Chunk object
uc_metadata(t) ==
    /\ pc[t] = "uc_metadata"
    /\ chunkHeap' = [chunkHeap EXCEPT ![loc[t].chunk].metadata = loc[t].meta]
    /\ Goto(t, "uc_upsert")
    /\ ev' = NoEvent
    /\ UNCHANGED <<libraries, documents, chunks, libHeap, docHeap, registry,
                   loc, explicit, admitted, locks, objects, files>>

\* update_chunk, last section: repository.update_chunk(chunk), an upsert
uc_upsert(t) ==
    /\ pc[t] = "uc_upsert"
    /\ chunks' = ChunkUpsert(chunks, loc[t].chunk)
    /\ ev' = [Event("update_chunk", t, loc[t].lib, "ok")
                 EXCEPT !.got = Len(loc[t].emb), !.ids = <<loc[t].chunk>>]
    /\ Return(t)
    /\ UNCHANGED <<libraries, documents, libHeap, docHeap, chunkHeap, registry,
                   explicit, admitted, locks, objects, files>>

\* a snapshot whose library records lose their embedding_dim
snapshot_without_dim ==
    [NoFile EXCEPT
       !.libraries = [l \in libraries |-> [embedding_dim |-> None, valid |-> TRUE]],
       !.documents = [d \in documents |->
           [library_id |-> docHeap[d].library_id, valid |-> TRUE]],
       !.chunks = [i \in DOMAIN chunks |->
           [id |-> chunks[i], document_id |-> chunkHeap[chunks[i]].document_id,
            embedding |-> chunkHeap[chunks[i]].embedding,
            metadata |-> chunkHeap[chunks[i]].metadata, valid |-> TRUE]]]

\* InMemoryRepository.snapshot
snapshot ==
    [NoFile EXCEPT
       !.libraries = [l \in libraries |->
           [embedding_dim |-> libHeap[l].embedding_dim, valid |-> TRUE]],
       !.documents = [d \in documents |->
           [library_id |-> docHeap[d].library_id, valid |-> TRUE]],
       !.chunks = [i \in DOMAIN chunks |->
           [id |-> chunks[i], document_id |-> chunkHeap[chunks[i]].document_id,
            embedding |-> chunkHeap[chunks[i]].embedding,
            metadata |-> chunkHeap[chunks[i]].metadata, valid |-> TRUE]]]

\* A save in flight remembers every metadata map the Registry held while the
\* Store's tables still had the content the save captured.  (The tables of
\* the runs that use this never return to an earlier content.)
NoteMeta(l, tables, meta) ==
    [u \in Threads |-> IF l[u].op = "save" /\ l[u].snap = tables
                       THEN [l[u] EXCEPT !.metas = @ \cup {meta}] ELSE l[u]]

\* An explicit build or clear for a library ends what the searches in flight
\* on it may expect of the index that answers them.
ForgetWant(l, library_id) ==
    [u \in Threads |-> IF l[u].op = "search" /\ l[u].lib = library_id
                       THEN [l[u] EXCEPT !.want = NoPair] ELSE l[u]]

\* LibraryService.delete_library_cascade, first section:
\* InMemoryRepository.delete_library
delete_library_cascade(t, library_id) ==
    /\ pc[t] = "idle"
    /\ library_id \in DOMAIN libHeap
    /\ LET doc_ids == {d \in documents : docHeap[d].library_id = library_id}
           chunks_to_delete == {c \in Range(chunks) : chunkHeap[c].document_id \in doc_ids}
       IN  /\ chunks' = SeqFilter(chunks, Range(chunks) \ chunks_to_delete)
           /\ documents' = documents \ doc_ids
    /\ libraries' = libraries \ {library_id}
    /\ Goto(t, "dl_clear_index")
    /\ loc' = [loc EXCEPT ![t] = [Idle EXCEPT !.op = "delete_library_cascade",
                                              !.lib = library_id]]
    /\ ev' = NoEvent
    /\ UNCHANGED <<libHeap, docHeap, chunkHeap, registry, explicit, admitted, locks, objects, files>>

\* the clear that pops the instance and leaves its metadata
ClearEntry_keeps_metadata(library_id) ==
    /\ indices' = DictPop(indices, library_id)
    /\ index_meta' = index_meta
    /\ explicit' = [explicit EXCEPT ![library_id] = NoPair]

\* IndexService.clear_index, the body under the Registry's write lock
ClearEntry(library_id) ==
    /\ indices' = DictPop(indices, library_id)
    /\ index_meta' = DictPop(index_meta, library_id)
    /\ explicit' = [explicit EXCEPT ![library_id] = NoPair]

\* LibraryService.delete_library_cascade, second section: clear_index
dl_clear_index(t) ==
    /\ pc[t] = "dl_clear_index"
    /\ ClearEntry(loc[t].lib)
    /\ pc' = [pc EXCEPT ![t] = "idle"]
    /\ loc' = [NoteMeta(ForgetWant(loc, loc[t].lib), snapshot, index_meta')
                   EXCEPT ![t] = Idle]
    /\ ev' = Event("delete_library_cascade", t, loc[t].lib, "ok")
    /\ UNCHANGED <<store, admitted, locks, objects, files>>

-----------------------------------------------------------------------------
(***************************************************************************)
(* The Index Registry (services/index_service.py).                         *)
(***************************************************************************)
DEFAULT_SEARCH_MULTIPLIER == 3
MAX_SEARCH_BUFFER == 50
default_metric == "cosine"

IndexAlgorithm == {"linear", "kdtree", "lsh"}
DistanceMetric == {"cosine", "euclidean"}
ALGORITHM_METRICS(algorithm) ==
    CASE algorithm = "linear" -> {"cosine", "euclidean"}
      [] algorithm = "kdtree" -> {"euclidean"}
      [] algorithm = "lsh" -> {"cosine"}

\* str.lower() on the names a request may carry
Lower(name) ==
    CASE name = "LINEAR" -> "linear"
      [] name = "COSINE" -> "cosine"
      [] OTHER -> name

\* _create_index without the test of the metric against the algorithm
_create_index_any_metric(algorithm, metric) ==
    IF algorithm \notin IndexAlgorithm THEN "InvalidAlgorithm"
    ELSE IF metric \notin DistanceMetric THEN "InvalidMetric"
    ELSE "ok"

\* IndexService._create_index: what it raises, or "ok"
_create_index(algorithm, metric) ==
    IF algorithm \notin IndexAlgorithm THEN "InvalidAlgorithm"
    ELSE IF metric \notin DistanceMetric THEN "InvalidMetric"
    ELSE IF metric \notin ALGORITHM_METRICS(algorithm) THEN "InvalidMetric"
    ELSE "ok"

\* _calculate_query_k without the bound k + buffer on the overfetch
_calculate_query_k_uncapped(k, has_filters) ==
    LET multiplier == IF has_filters THEN DEFAULT_SEARCH_MULTIPLIER * 2
                      ELSE DEFAULT_SEARCH_MULTIPLIER
    IN  Max(k, k * multiplier)

\* IndexService._calculate_query_k
_calculate_query_k(k, has_filters) ==
    LET multiplier == IF has_filters THEN DEFAULT_SEARCH_MULTIPLIER * 2
                      ELSE DEFAULT_SEARCH_MULTIPLIER
        buffer == IF has_filters THEN MAX_SEARCH_BUFFER * 2 ELSE MAX_SEARCH_BUFFER
    IN  Max(k, Min(k * multiplier, k + buffer))

\* valid_pairs = [(c.embedding, c.id) for c in chunks if c.embedding], on
\* the result of list_chunks
ValidIdsOf(listed, cheap) ==
    SeqFilter(listed, {c \in Range(listed) : cheap[c].embedding # <<>>})
VectorsOf(ids, cheap) == [i \in DOMAIN ids |-> cheap[ids[i]].embedding]

valid_ids(library_id) == ValidIdsOf(list_chunks(library_id), chunkHeap)
valid_vectors(library_id) == VectorsOf(valid_ids(library_id), chunkHeap)

\* index.query(vector, k) of the instance's kind
IndexQuery(index, vector, k) ==
    CASE index.kind = "linear" -> LinearQuery(index, vector, k)
      [] index.kind = "kdtree" -> KDTreeQuery(index, vector, k)
      [] index.kind = "lsh" -> LSHQuery(index, vector, k)
IndexQueryRaises(index, vector, k) ==
    CASE index.kind = "linear" -> LinearQueryRaises(index, vector, k)
      [] index.kind = "kdtree" -> KDTreeQueryRaises(index, vector, k)
      [] index.kind = "lsh" -> LSHQueryRaises(index, vector, k)

\* IndexService.get_index_info
get_index_info(library_id) ==
    IF library_id \in DOMAIN index_meta
    THEN <<index_meta[library_id].algorithm, index_meta[library_id].metric>>
    ELSE <<"none", default_metric>>

\* the install that leaves the metadata of an existing entry as it is
InstallEntry_keeps_metadata(library_id, index) ==
    /\ indices' = DictSet(indices, library_id, index)
    /\ index_meta' = IF library_id \in DOMAIN index_meta THEN index_meta
                      ELSE DictSet(index_meta, library_id,
                                   [algorithm |-> index.kind, metric |-> index.metric])

\* The write-locked body shared by build_index and _get_or_create_index
InstallEntry(library_id, index) ==
    /\ indices' = DictSet(indices, library_id, index)
    /\ index_meta' = DictSet(index_meta, library_id,
                             [algorithm |-> index.kind, metric |-> index.metric])

\* IndexService.build_index up to the install: _create_index, list_chunks and
\* index.build on the fresh instance
build_index(t, library_id, algorithm, metric) ==
    /\ pc[t] = "idle"
    /\ library_id \in DOMAIN libHeap
    /\ LET created == _create_index(Lower(algorithm), Lower(metric))
       IN  IF created # "ok"
           THEN /\ ev' = [Event("build_index", t, library_id, created)
                             EXCEPT !.given = <<algorithm, metric>>]
                /\ UNCHANGED <<pc, loc>>
           ELSE IF _validate_inputs_raises(valid_vectors(library_id))
           THEN /\ ev' = [Event("build_index", t, library_id, "ValueError")
                             EXCEPT !.given = <<algorithm, metric>>]
                /\ UNCHANGED <<pc, loc>>
           ELSE /\ Goto(t, "bi_install")
                /\ loc' = [loc EXCEPT ![t] = [Idle EXCEPT !.op = "build_index",
                       !.lib = library_id, !.given = <<algorithm, metric>>,
                       !.idx = [kind |-> Lower(algorithm), metric |-> Lower(metric),
                                ids |-> valid_ids(library_id),
                                vectors |-> valid_vectors(library_id)]]]
                /\ ev' = NoEvent
    /\ UNCHANGED <<store, registry, explicit, admitted, locks, objects, files>>

\* IndexService.build_index, the install under the Registry's write lock
bi_install(t) ==
    /\ pc[t] = "bi_install"
    /\ InstallEntry(loc[t].lib, loc[t].idx)
    /\ explicit' = [explicit EXCEPT ![loc[t].lib] = <<loc[t].idx.kind, loc[t].idx.metric>>]
    /\ pc' = [pc EXCEPT ![t] = "idle"]
    /\ loc' = [NoteMeta(ForgetWant(loc, loc[t].lib), snapshot, index_meta')
                   EXCEPT ![t] = Idle]
    /\ ev' = [Event("build_index", t, loc[t].lib, "ok")
                 EXCEPT !.pair = <<loc[t].idx.kind, loc[t].idx.metric>>,
                        !.given = loc[t].given,
                        !.replaced = get_index_info(loc[t].lib)]
    /\ UNCHANGED <<store, admitted, locks, objects, files>>

\* IndexService.clear_index
clear_index(t, library_id) ==
    /\ pc[t] = "idle"
    /\ library_id \in DOMAIN libHeap
    /\ ClearEntry(library_id)
    /\ loc' = NoteMeta(ForgetWant(loc, library_id), snapshot, index_meta')
    /\ ev' = Event("clear_index", t, library_id, "ok")
    /\ UNCHANGED <<store, pc, admitted, locks, objects, files>>

(***************************************************************************)
(* The search endpoint (api/routers/libraries.py search_chunks) around     *)
(* IndexService.search.  The query runs on the borrowed instance after the *)
(* Registry lock is released; it reads nothing but the instance and the    *)
(* request, so it is part of the step that obtained the instance.          *)
(***************************************************************************)
\* the chunk ids generated so far that the Store does not hold
DeletedChunks == DOMAIN chunkHeap \ Range(chunks)

\* IndexService.search returns ids to the endpoint, which then assembles
\* its items; l is the searching thread's local state, base the local
\* states of all threads after the step
SearchReturns(base, t, l, index, ids) ==
    /\ ev' = [Event("search", t, l.lib, "ok") EXCEPT !.ids = ids,
                 !.pair = <<index.kind, index.metric>>, !.want = l.want, !.gone = l.gone]
    /\ loc' = [base EXCEPT ![t] = [l EXCEPT !.results = ids, !.pos = 1, !.idx = NoIndex]]
    /\ Goto(t, IF ids = <<>> THEN "e_index_info" ELSE "e_get_chunk")

\* IndexService.search from the query on, with the index it obtained
Answer(base, t, l, index) ==
    LET query_k == _calculate_query_k(l.k, l.filters # {})
        results == IndexQuery(index, l.vec, query_k)
    IN  IF IndexQueryRaises(index, l.vec, query_k)
        THEN /\ ev' = Event("search_chunks", t, l.lib, "400")
             /\ pc' = [pc EXCEPT ![t] = "idle"]
             /\ loc' = [base EXCEPT ![t] = Idle]
        ELSE IF l.filters # {} /\ results # <<>>
        THEN /\ loc' = [base EXCEPT ![t] = [l EXCEPT !.idx = index, !.results = results,
                                                     !.kept = <<>>, !.pos = 1]]
             /\ Goto(t, "s_filter")
             /\ ev' = NoEvent
        ELSE SearchReturns(base, t, l, index, Take(results, l.k))

\* search_chunks -> IndexService.search: the k test and the read-locked
\* lookup of _get_or_create_index
search_chunks(t, library_id, vector, k, metadata_filters) ==
    /\ pc[t] = "idle"
    /\ library_id \in DOMAIN libHeap
    /\ LET l == [Idle EXCEPT !.op = "search", !.lib = library_id, !.vec = vector,
                             !.k = k, !.filters = metadata_filters,
                             !.want = explicit[library_id], !.gone = DeletedChunks]
       IN  IF k <= 0 THEN SearchReturns(loc, t, l, NoIndex, <<>>)
           ELSE IF library_id \in DOMAIN indices THEN Answer(loc, t, l, indices[library_id])
           ELSE /\ loc' = [loc EXCEPT ![t] = l]
                /\ Goto(t, "s_list_chunks")
                /\ ev' = NoEvent
    /\ UNCHANGED <<store, registry, explicit, admitted, locks, objects, files>>

\* _get_or_create_index without an entry: list_chunks and the build of the
\* fallback LinearIndex
s_list_chunks(t) ==
    /\ pc[t] = "s_list_chunks"
    /\ LET ids == valid_ids(loc[t].lib)
           vectors == valid_vectors(loc[t].lib)
       IN  IF ids = <<>> THEN SearchReturns(loc, t, loc[t], NoIndex, <<>>)
           ELSE IF _validate_inputs_raises(vectors)
           THEN /\ ev' = Event("search_chunks", t, loc[t].lib, "400")
                /\ Return(t)
           ELSE /\ loc' = [loc EXCEPT ![t].idx = LinearIndex(default_metric, vectors, ids)]
                /\ Goto(t, "s_install")
                /\ ev' = NoEvent
    /\ UNCHANGED <<store, registry, explicit, admitted, locks, objects, files>>

\* _get_or_create_index: the fallback index is cached under the write lock,
\* then search queries it
s_install(t) ==
    /\ pc[t] = "s_install"
    /\ InstallEntry(loc[t].lib, loc[t].idx)
    /\ Answer(NoteMeta(loc, snapshot, index_meta'), t, loc[t], loc[t].idx)
    /\ UNCHANGED <<store, explicit, admitted, locks, objects, files>>

\* the loop of _apply_metadata_filters without its test of the metadata
s_filter_any_metadata(t) ==
    /\ pc[t] = "s_filter"
    /\ LET l == loc[t]
           chunk_id == l.results[l.pos]
           keep == chunk_id \in Range(chunks)
           filtered == IF keep THEN Append(l.kept, chunk_id) ELSE l.kept
       IN  IF l.pos < Len(l.results)
           THEN /\ loc' = [loc EXCEPT ![t].kept = filtered, ![t].pos = l.pos + 1]
                /\ ev' = NoEvent
                /\ UNCHANGED pc
           ELSE SearchReturns(loc, t, [l EXCEPT !.kept = <<>>], l.idx, Take(filtered, l.k))
    /\ UNCHANGED <<store, registry, explicit, admitted, locks, objects, files>>

\* _apply_metadata_filters: one turn of its loop, a repository.get_chunk
s_filter(t) ==
    /\ pc[t] = "s_filter"
    /\ LET l == loc[t]
           chunk_id == l.results[l.pos]
           keep == /\ chunk_id \in Range(chunks)
                   /\ l.filters \subseteq chunkHeap[chunk_id].metadata
           filtered == IF keep THEN Append(l.kept, chunk_id) ELSE l.kept
       IN  IF l.pos < Len(l.results)
           THEN /\ loc' = [loc EXCEPT ![t].kept = filtered, ![t].pos = l.pos + 1]
                /\ ev' = NoEvent
                /\ UNCHANGED pc
           ELSE SearchReturns(loc, t, [l EXCEPT !.kept = <<>>], l.idx, Take(filtered, l.k))
    /\ UNCHANGED <<store, registry, explicit, admitted, locks, objects, files>>

\* the loop of search_chunks without its except clause: the
\* ResourceNotFoundException of get_chunk fails the request
e_get_chunk_unguarded(t) ==
    /\ pc[t] = "e_get_chunk"
    /\ LET l == loc[t]
           chunk_id == l.results[l.pos]
       IN  IF chunk_id \in Range(chunks)
           THEN /\ loc' = [loc EXCEPT ![t].items = Append(l.items,
                              [chunk_id |-> chunk_id, in_store |-> TRUE]),
                                      ![t].pos = l.pos + 1]
                /\ Goto(t, IF l.pos < Len(l.results) THEN "e_get_chunk" ELSE "e_index_info")
                /\ ev' = NoEvent
           ELSE /\ ev' = Event("search_chunks", t, l.lib, "404")
                /\ Return(t)
    /\ UNCHANGED <<store, registry, explicit, admitted, locks, objects, files>>

\* search_chunks: one turn of the loop over the results; a chunk that
\* get_chunk does not find (ResourceNotFoundException) is skipped
e_get_chunk(t) ==
    /\ pc[t] = "e_get_chunk"
    /\ LET l == loc[t]
           chunk_id == l.results[l.pos]
           items == IF chunk_id \in Range(chunks)
                    THEN Append(l.items, [chunk_id |-> chunk_id,
                                          in_store |-> chunk_id \in Range(chunks)])
                    ELSE l.items
       IN  /\ loc' = [loc EXCEPT ![t].items = items, ![t].pos = l.pos + 1]
           /\ Goto(t, IF l.pos < Len(l.results) THEN "e_get_chunk" ELSE "e_index_info")
    /\ ev' = NoEvent
    /\ UNCHANGED <<store, registry, explicit, admitted, locks, objects, files>>

\* search_chunks: get_index_info and the response
e_index_info(t) ==
    /\ pc[t] = "e_index_info"
    /\ ev' = [Event("search_chunks", t, loc[t].lib, "200")
                 EXCEPT !.ids = loc[t].items, !.got = Len(loc[t].results),
                        !.pair = get_index_info(loc[t].lib)]
    /\ Return(t)
    /\ UNCHANGED <<store, registry, explicit, admitted, locks, objects, files>>

(***************************************************************************)
(* Snapshots (services/snapshot_service.py, repositories/memory.py).  The  *)
(* file holds what model_dump wrote for every entity; "valid" says that    *)
(* the entity's constructor accepts the record as it is on disk now, and   *)
(* "parses" that json.loads accepts the file.                              *)
(***************************************************************************)
\* the content of the three tables, object identities aside
TableView(libs, lheap, docs, dheap, chs, cheap) ==
    <<[l \in libs |-> lheap[l]], [d \in docs |-> dheap[d]],
      [i \in DOMAIN chs |-> <<chs[i], cheap[chs[i]]>>]>>

\* SnapshotService.save, first section: repository.snapshot()
save(t) ==
    /\ pc[t] = "idle"
    /\ loc' = [loc EXCEPT ![t] = [Idle EXCEPT !.op = "save", !.snap = snapshot,
                                              !.metas = {index_meta}]]
    /\ Goto(t, "sv_write")
    /\ ev' = NoEvent
    /\ UNCHANGED <<store, registry, explicit, admitted, locks, objects, files>>

\* SnapshotService.save, second section: get_index_metadata() and write_text
sv_write(t) ==
    /\ pc[t] = "sv_write"
    /\ files' = [loc[t].snap EXCEPT !.exists = TRUE, !.parses = TRUE,
                                    !.indices = index_meta]
    /\ Return(t)
    /\ ev' = [Event("save", t, 0, "ok")
                 EXCEPT !.torn = /\ index_meta \notin loc[t].metas
                                 /\ loc[t].snap # snapshot]
    /\ UNCHANGED <<store, registry, explicit, admitted, locks, objects>>

\* The file changes on disk between a save and a load: it stops being JSON,
\* or one record of one table stops being a valid entity.
damage(table, key) ==
    /\ files.exists
    /\ \/ /\ table = "json" /\ files.parses
          /\ files' = [files EXCEPT !.parses = FALSE]
       \/ /\ table = "libraries" /\ key \in DOMAIN files.libraries
          /\ files.libraries[key].valid
          /\ files' = [files EXCEPT !.libraries[key].valid = FALSE]
       \/ /\ table = "documents" /\ key \in DOMAIN files.documents
          /\ files.documents[key].valid
          /\ files' = [files EXCEPT !.documents[key].valid = FALSE]
       \/ /\ table = "chunks" /\ key \in DOMAIN files.chunks
          /\ files.chunks[key].valid
          /\ files' = [files EXCEPT !.chunks[key].valid = FALSE]
    /\ ev' = NoEvent
    /\ UNCHANGED <<store, registry, pc, loc, explicit, admitted, locks, objects>>

\* heap[id] = the entity built from record[id], for every id in ids
Rebind(heap, ids, made) ==
    [x \in DOMAIN heap |-> IF x \in ids THEN made[x] ELSE heap[x]]

\* SnapshotService.load: json.loads, repository.load_snapshot, whose three
\* assignments happen one after the other, and rebuild_indices
load(t) ==
    /\ pc[t] = "idle"
    /\ LET f == files
           libs_ok == \A l \in DOMAIN f.libraries : f.libraries[l].valid
           docs_ok == \A d \in DOMAIN f.documents : f.documents[d].valid
           chunks_ok == \A i \in DOMAIN f.chunks : f.chunks[i].valid
           \* how far load_snapshot gets: the number of tables it replaces
           done == IF ~f.exists \/ ~f.parses \/ ~libs_ok THEN 0
                   ELSE IF ~docs_ok THEN 1 ELSE IF ~chunks_ok THEN 2 ELSE 3
           new_libraries == IF done >= 1 THEN DOMAIN f.libraries ELSE libraries
           new_libHeap ==
               IF done >= 1
               THEN Rebind(libHeap, DOMAIN f.libraries,
                           [l \in DOMAIN f.libraries |->
                               [embedding_dim |-> f.libraries[l].embedding_dim]])
               ELSE libHeap
           new_documents == IF done >= 2 THEN DOMAIN f.documents ELSE documents
           new_docHeap ==
               IF done >= 2
               THEN Rebind(docHeap, DOMAIN f.documents,
                           [d \in DOMAIN f.documents |->
                               [library_id |-> f.documents[d].library_id]])
               ELSE docHeap
           new_chunks == IF done = 3 THEN [i \in DOMAIN f.chunks |-> f.chunks[i].id]
                         ELSE chunks
           new_chunkHeap ==
               IF done = 3
               THEN Rebind(chunkHeap, Range(new_chunks),
                           [c \in Range(new_chunks) |->
                               LET r == CHOOSE r \in Range(f.chunks) : r.id = c
                               IN  [document_id |-> r.document_id,
                                    embedding |-> r.embedding, metadata |-> r.metadata]])
               ELSE chunkHeap
           \* rebuild_indices: build_index per saved entry, a failure is logged
           ids(l) == ValidIdsOf(ChunksOf(l, new_documents, new_docHeap,
                                         new_chunks, new_chunkHeap), new_chunkHeap)
           rebuilt == IF done = 3
                      THEN {l \in DOMAIN f.indices :
                              /\ _create_index(f.indices[l].algorithm,
                                               f.indices[l].metric) = "ok"
                              /\ ~_validate_inputs_raises(VectorsOf(ids(l), new_chunkHeap))}
                      ELSE {}
           built(l) == [kind |-> f.indices[l].algorithm, metric |-> f.indices[l].metric,
                        ids |-> ids(l), vectors |-> VectorsOf(ids(l), new_chunkHeap)]
       IN  /\ libraries' = new_libraries /\ libHeap' = new_libHeap
           /\ documents' = new_documents /\ docHeap' = new_docHeap
           /\ chunks' = new_chunks /\ chunkHeap' = new_chunkHeap
           /\ indices' = [l \in DOMAIN indices \cup rebuilt |->
                             IF l \in rebuilt THEN built(l) ELSE indices[l]]
           /\ index_meta' = [l \in DOMAIN index_meta \cup rebuilt |->
                                IF l \in rebuilt THEN f.indices[l] ELSE index_meta[l]]
           /\ explicit' = [l \in LibIds |->
                              IF l \in rebuilt
                              THEN <<f.indices[l].algorithm, f.indices[l].metric>>
                              ELSE explicit[l]]
           /\ ev' = [Event("load", t, 0,
                           IF ~f.exists THEN "missing"
                           ELSE IF done = 3 THEN "ok" ELSE "error")
                        EXCEPT !.prev = ev.op, !.changed =
                            TableView(new_libraries, new_libHeap, new_documents,
                                      new_docHeap, new_chunks, new_chunkHeap)
                            # TableView(libraries, libHeap, documents, docHeap,
                                        chunks, chunkHeap)]
    /\ loc' = NoteMeta(loc, snapshot', index_meta')
    /\ UNCHANGED <<pc, admitted, locks, objects, files>>

-----------------------------------------------------------------------------
(***************************************************************************)
(* The specification: any number of requests, on NumThreads threads.       *)
(***************************************************************************)
Init ==
    /\ libraries = {} /\ documents = {} /\ chunks = <<>>
    /\ libHeap = <<>> /\ docHeap = <<>> /\ chunkHeap = <<>>
    /\ indices = <<>> /\ index_meta = <<>>
    /\ pc = [t \in Threads |-> "idle"]
    /\ loc = [t \in Threads |-> Idle]
    /\ explicit = [l \in LibIds |-> NoPair]
    /\ admitted = [l \in LibIds |-> None]
    /\ files = NoFile
    /\ ev = NoEvent
    /\ locks = [name \in LockNames |-> Unlocked]
    /\ objects = NoObjects

\* library and document operations
EntityStep(t) ==
    \/ create_library(t)
    \/ \E l \in LibIds : create_document(t, l)
    \/ cd_insert(t)
    \/ \E d \in DocIds : delete_document(t, d)
    \/ \E l \in LibIds : delete_library_cascade(t, l)
    \/ dl_clear_index(t)

\* create_chunk and delete_chunk
ChunkStep(t, metas) ==
    \/ \E l \in LibIds, d \in DocIds, e \in Embeddings, m \in metas :
           create_chunk(t, l, d, e, m)
    \/ v_get_library(t)
    \/ v_check(t)
    \/ v_set_dim(t)
    \/ v_update_library(t)
    \/ cc_insert(t)
    \/ \E c \in ChunkIds : delete_chunk(t, c)

\* update_chunk
UpdateStep(t, metas) ==
    \/ \E c \in ChunkIds, e \in Embeddings \cup {<<>>}, h \in BOOLEAN :
           \E m \in IF h THEN metas ELSE {{}} : update_chunk(t, c, e, h, m)
    \/ uc_get_document(t)
    \/ uc_assign(t)
    \/ uc_metadata(t)
    \/ uc_upsert(t)

\* build_index and clear_index
IndexStep(t) ==
    \/ \E l \in LibIds, b \in BuildInputs : build_index(t, l, b[1], b[2])
    \/ bi_install(t)
    \/ \E l \in LibIds : clear_index(t, l)

\* the search endpoint
SearchStep(t) ==
    \/ \E l \in LibIds, v \in QueryVectors, k \in 1..MaxK, f \in Filters :
           search_chunks(t, l, v, k, f)
    \/ s_list_chunks(t)
    \/ s_install(t)
    \/ s_filter(t)
    \/ e_get_chunk(t)
    \/ e_index_info(t)

\* snapshots, and what happens to the file in between
SnapshotStep(t) ==
    \/ save(t)
    \/ sv_write(t)
    \/ \E table \in {"json", "libraries", "documents", "chunks"},
          key \in LibIds \cup DocIds \cup ChunkIds : damage(table, key)
    \/ load(t)

Next ==
    \E t \in Threads :
        \/ EntityStep(t) \/ ChunkStep(t, Metas) \/ UpdateStep(t, Metas)
        \/ IndexStep(t) \/ SearchStep(t) \/ SnapshotStep(t)

Spec == Init /\ [][Next]_vars

(***************************************************************************)
(* The Store under concurrent entity operations.                           *)
(***************************************************************************)
StoreNext ==
    \E t \in Threads : EntityStep(t) \/ ChunkStep(t, {{}}) \/ UpdateStep(t, {{}})
StoreSpec == Init /\ [][StoreNext]_vars

(***************************************************************************)
(* The Registry and the search endpoint under concurrent chunk operations, *)
(* from the state after create_library and create_document.                *)
(***************************************************************************)
InitOneDocument ==
    /\ libraries = {1} /\ documents = {1} /\ chunks = <<>>
    /\ libHeap = <<[embedding_dim |-> None]>>
    /\ docHeap = <<[library_id |-> 1]>>
    /\ chunkHeap = <<>>
    /\ indices = <<>> /\ index_meta = <<>>
    /\ pc = [t \in Threads |-> "idle"]
    /\ loc = [t \in Threads |-> Idle]
    /\ explicit = [l \in LibIds |-> NoPair]
    /\ admitted = [l \in LibIds |-> None]
    /\ files = NoFile
    /\ ev = NoEvent
    /\ locks = [name \in LockNames |-> Unlocked]
    /\ objects = NoObjects

RegistryNext ==
    \E t \in Threads : ChunkStep(t, Metas) \/ IndexStep(t) \/ SearchStep(t)
RegistrySpec == InitOneDocument /\ [][RegistryNext]_vars

(***************************************************************************)
(* The search endpoint alone, on the fallback index, under concurrent      *)
(* chunk operations.                                                       *)
(***************************************************************************)
SearchNext == \E t \in Threads : ChunkStep(t, Metas) \/ SearchStep(t)
SearchSpec == InitOneDocument /\ [][SearchNext]_vars

(***************************************************************************)
(* Sequential use: one client, each call finished before the next starts.  *)
(***************************************************************************)
Client == CHOOSE t \in Threads : \A u \in Threads : t <= u

SeqNext == EntityStep(Client) \/ ChunkStep(Client, {{}}) \/ UpdateStep(Client, {{}})
SeqSpec == Init /\ [][SeqNext]_vars

(***************************************************************************)
(* Sequential use with snapshots: save, damage to the file, load.          *)
(***************************************************************************)
SnapshotNext ==
    \/ EntityStep(Client) \/ ChunkStep(Client, {{}})
    \/ IndexStep(Client) \/ SnapshotStep(Client)
SnapshotSpec == Init /\ [][SnapshotNext]_vars

(***************************************************************************)
(* Sequential use with snapshots of an intact file, indexes and searches,  *)
(* from the state after create_library and create_document.                *)
(***************************************************************************)
RoundTripNext ==
    \/ ChunkStep(Client, {{}}) \/ IndexStep(Client) \/ SearchStep(Client)
    \/ save(Client) \/ sv_write(Client) \/ load(Client)
RoundTripSpec == InitOneDocument /\ [][RoundTripNext]_vars

(***************************************************************************)
(* save() under concurrent cascade deletes, builds and clears.             *)
(***************************************************************************)
SaveNext ==
    \E t \in Threads :
        \/ \E l \in LibIds : delete_library_cascade(t, l)
        \/ dl_clear_index(t)
        \/ IndexStep(t)
        \/ save(t)
        \/ sv_write(t)
SaveSpec == InitOneDocument /\ [][SaveNext]_vars

(***************************************************************************)
(* Entity operations with create_chunk calls that name a library id no     *)
(* library has.                                                            *)
(***************************************************************************)
UnknownLibrary == MaxLibs + 1

CrossCheckNext ==
    \E t \in Threads :
        \/ EntityStep(t)
        \/ ChunkStep(t, {{}})
        \/ \E d \in DocIds, e \in Embeddings : create_chunk(t, UnknownLibrary, d, e, {})
CrossCheckSpec == Init /\ [][CrossCheckNext]_vars

(***************************************************************************)
(* build_index and clear_index with every name a request may carry.        *)
(***************************************************************************)
AlgorithmNames == IndexAlgorithm \cup {"bogus", "LINEAR"}
MetricNames == DistanceMetric \cup {"bogus", "COSINE"}

BuildNext ==
    \E t \in Threads :
        \/ \E l \in LibIds, a \in AlgorithmNames, m \in MetricNames :
               build_index(t, l, a, m)
        \/ bi_install(t)
        \/ \E l \in LibIds : clear_index(t, l)
BuildSpec == InitOneDocument /\ [][BuildNext]_vars

(***************************************************************************)
(* Sequential use of the Registry: builds of every compatible pair, clears *)
(* and searches, which install the fallback.                               *)
(***************************************************************************)
CompatiblePairs ==
    {b \in IndexAlgorithm \X DistanceMetric : b[2] \in ALGORITHM_METRICS(b[1])}

IndexInfoNext ==
    \/ ChunkStep(Client, {{}})
    \/ \E l \in LibIds, b \in CompatiblePairs : build_index(Client, l, b[1], b[2])
    \/ bi_install(Client)
    \/ \E l \in LibIds : clear_index(Client, l)
    \/ SearchStep(Client)
IndexInfoSpec == InitOneDocument /\ [][IndexInfoNext]_vars

(***************************************************************************)
(* Sequential searches with every k around the number of chunks, on every  *)
(* kind of index, over a library of NumRanked chunks whose embeddings (of  *)
(* one length, as create_chunk admits them one after the other) and        *)
(* metadata are any of a few.                                              *)
(***************************************************************************)
NumRanked == 3
RankVectors == {<<1, 0>>, <<0, 1>>, <<1, 1>>}
RankQueries == {<<1, 0>>, <<-1, 2>>}
SearchKs == 0..NumRanked

InitRanked ==
    /\ libraries = {1} /\ documents = {1}
    /\ chunks = [i \in 1..NumRanked |-> i]
    /\ libHeap = <<[embedding_dim |-> 2]>>
    /\ docHeap = <<[library_id |-> 1]>>
    /\ chunkHeap \in [1..NumRanked ->
                         [document_id : {1}, embedding : RankVectors, metadata : Metas]]
    /\ indices = <<>> /\ index_meta = <<>>
    /\ pc = [t \in Threads |-> "idle"]
    /\ loc = [t \in Threads |-> Idle]
    /\ explicit = [l \in LibIds |-> NoPair]
    /\ admitted = [l \in LibIds |-> 2]
    /\ files = NoFile
    /\ ev = NoEvent
    /\ locks = [name \in LockNames |-> Unlocked]
    /\ objects = NoObjects

RankedNext ==
    \/ \E l \in LibIds, b \in CompatiblePairs : build_index(Client, l, b[1], b[2])
    \/ bi_install(Client)
    \/ \E l \in LibIds : clear_index(Client, l)
    \/ \E l \in LibIds, v \in RankQueries, k \in SearchKs, f \in Filters :
           search_chunks(Client, l, v, k, f)
    \/ s_list_chunks(Client)
    \/ s_install(Client)
    \/ s_filter(Client)
    \/ e_get_chunk(Client)
    \/ e_index_info(Client)
RankedSpec == InitRanked /\ [][RankedNext]_vars

(***************************************************************************)
(* Sequential filtered searches over chunks whose metadata is updated and  *)
(* which are deleted after the index was built.                            *)
(***************************************************************************)
FilterVectors == << <<1, 0>>, <<1, 1>>, <<0, 1>> >>

InitFiltered ==
    /\ InitRanked
    /\ \A i \in 1..NumRanked :
          chunkHeap[i].embedding = FilterVectors[((i - 1) % Len(FilterVectors)) + 1]

FilterNext ==
    \/ \E c \in ChunkIds, m \in Metas : update_chunk(Client, c, <<>>, TRUE, m)
    \/ uc_metadata(Client)
    \/ uc_upsert(Client)
    \/ \E c \in ChunkIds : delete_chunk(Client, c)
    \/ \E l \in LibIds, b \in CompatiblePairs : build_index(Client, l, b[1], b[2])
    \/ bi_install(Client)
    \/ \E l \in LibIds : clear_index(Client, l)
    \/ \E l \in LibIds, v \in RankQueries, k \in 1..(MaxK + 1), f \in Filters \ {{}} :
           search_chunks(Client, l, v, k, f)
    \/ s_list_chunks(Client)
    \/ s_install(Client)
    \/ s_filter(Client)
    \/ e_get_chunk(Client)
    \/ e_index_info(Client)
FilterSpec == InitFiltered /\ [][FilterNext]_vars

(***************************************************************************)
(* KD-tree builds over NumKD points of a small grid, with duplicates and   *)
(* shared coordinates, listed in the order of their ids or against it.     *)
(***************************************************************************)
NumKD == 4
KDPoints == {<<x, y>> : x \in 0..2, y \in 0..1}
KDQueries == {<<x, y>> : x \in 0..2, y \in 0..2}

\* the state after n create_chunk calls with embeddings out of points
InitPoints(n, points) ==
    /\ libraries = {1} /\ documents = {1}
    /\ chunks \in {[i \in 1..n |-> i], [i \in 1..n |-> n + 1 - i]}
    /\ libHeap = <<[embedding_dim |-> 2]>>
    /\ docHeap = <<[library_id |-> 1]>>
    /\ chunkHeap \in [1..n -> [document_id : {1}, embedding : points, metadata : {{}}]]
    /\ indices = <<>> /\ index_meta = <<>>
    /\ pc = [t \in Threads |-> "idle"]
    /\ loc = [t \in Threads |-> Idle]
    /\ explicit = [l \in LibIds |-> NoPair]
    /\ admitted = [l \in LibIds |-> 2]
    /\ files = NoFile
    /\ ev = NoEvent
    /\ locks = [name \in LockNames |-> Unlocked]
    /\ objects = NoObjects

InitKD == InitPoints(NumKD, KDPoints)

KDNext ==
    \/ \E l \in LibIds : build_index(Client, l, "kdtree", "euclidean")
    \/ bi_install(Client)
    \/ \E l \in LibIds : clear_index(Client, l)
KDSpec == InitKD /\ [][KDNext]_vars

(***************************************************************************)
(* Linear builds with either metric over the same points.                  *)
(***************************************************************************)
NumLinear == 3
LinearPoints == {<<0, 0>>, <<1, 0>>, <<0, 1>>, <<2, 0>>}
LinearQueries == {<<0, 0>>, <<1, 0>>, <<1, 1>>, <<-1, 1>>}

InitLinear == InitPoints(NumLinear, LinearPoints)

LinearNext ==
    \/ \E l \in LibIds, m \in ALGORITHM_METRICS("linear") :
           build_index(Client, l, "linear", m)
    \/ bi_install(Client)
    \/ \E l \in LibIds : clear_index(Client, l)
LinearSpec == InitLinear /\ [][LinearNext]_vars

(***************************************************************************)
(* The vector functions of vector_index/base.py, called on two sequences   *)
(* of any lengths up to MaxLen.  A caller holds the two arguments (emb and *)
(* vec of its local state) and calls one function; the event of the call   *)
(* says whether it returned or raised, and what it returned: the sum for   *)
(* dot, the squared distance for euclidean_distance and, for               *)
(* cosine_similarity, the dot product with the two squared norms that      *)
(* divide it (0 with them when a norm is zero).                            *)
(***************************************************************************)
MaxLen == 2
Coordinates == -1..1
MathVectors == UNION {[1..n -> Coordinates] : n \in 0..MaxLen}
VectorOps == {"dot", "cosine_similarity", "euclidean_distance"}

\* what cosine_similarity(a, b) returns
cosine_similarity(a, b) ==
    IF SqNorm(a) = 0 \/ SqNorm(b) = 0 THEN <<0, 1, 1>>
    ELSE <<dot(a, b), SqNorm(a), SqNorm(b)>>

\* what a call of one of the functions returns: none of them tests the
\* lengths of its arguments, and zip pairs the elements up to the shorter
VectorOpValue(f, a, b) ==
    CASE f = "dot" -> <<dot(a, b)>>
      [] f = "cosine_similarity" -> cosine_similarity(a, b)
      [] f = "euclidean_distance" -> <<SqDist(a, b)>>

InitMath ==
    /\ Init!1 /\ Init!2 /\ Init!3 /\ Init!4
    /\ \E a \in MathVectors, b \in MathVectors :
          loc = [t \in Threads |-> IF t = Client
                                   THEN [Idle EXCEPT !.emb = a, !.vec = b] ELSE Idle]
    /\ explicit = [l \in LibIds |-> NoPair]
    /\ admitted = [l \in LibIds |-> None]
    /\ files = NoFile
    /\ ev = NoEvent
    /\ locks = [name \in LockNames |-> Unlocked]
    /\ objects = NoObjects

\* one call f(a, b) with the arguments the caller holds
call_vector_op(t, f) ==
    /\ pc[t] = "idle"
    /\ ev' = [Event(f, t, 0, "returned")
                 EXCEPT !.ids = VectorOpValue(f, loc[t].emb, loc[t].vec)]
    /\ UNCHANGED <<store, registry, pc, loc, explicit, admitted, locks, objects, files>>

MathNext == \E f \in VectorOps : call_vector_op(Client, f)
MathSpec == InitMath /\ [][MathNext]_vars

-----------------------------------------------------------------------------
(***************************************************************************)
(* Referential integrity and the embedding dimension under concurrency     *)
(* (StoreSpec).                                                            *)
(***************************************************************************)
\* the library a chunk in the Store belongs to, through its document
LibraryOf(c) == docHeap[chunkHeap[c].document_id].library_id

\* C1: every document in the Store has a library_id that names a library in
\* the Store, in every state any interleaving of operations reaches.
C1_DocumentsNameLibraries ==
    \A d \in documents : docHeap[d].library_id \in libraries

\* C2: every chunk in the Store has a document_id that names a document in
\* the Store, in every state any interleaving of operations reaches.
C2_ChunksNameDocuments ==
    \A c \in Range(chunks) : chunkHeap[c].document_id \in documents

\* C3: in every state, all chunks of a library L that carry an embedding
\* have embeddings of one length, and that length is L.embedding_dim.
C3_OneLengthPerLibrary ==
    \A l \in libraries :
        \A c \in Range(list_chunks(l)) :
            chunkHeap[c].embedding # <<>> =>
                Len(chunkHeap[c].embedding) = libHeap[l].embedding_dim

\* C4: no step changes a library's embedding_dim once it is set: the only
\* change is from None to a length, and it happens at most once.
C4_DimSetOnce ==
    [][\A l \in DOMAIN libHeap :
          libHeap[l].embedding_dim # None =>
              libHeap'[l].embedding_dim = libHeap[l].embedding_dim]_vars

\* C6: in the state in which delete_library_cascade(L) returns, the Store
\* holds no library L, no document of L and no chunk of a document of L, and
\* the Registry holds no index and no metadata for L.
C6_CascadeLeavesNothing ==
    ev.op = "delete_library_cascade" =>
        /\ ev.id \notin libraries
        /\ \A d \in documents : docHeap[d].library_id # ev.id
        /\ \A c \in Range(chunks) : LibraryOf(c) # ev.id
        /\ ev.id \notin DOMAIN indices
        /\ ev.id \notin DOMAIN index_meta

-----------------------------------------------------------------------------
(***************************************************************************)
(* The Registry and the search endpoint (RegistrySpec).                    *)
(***************************************************************************)
\* C7: a search that began after build_index(L, a, m) returned, with no
\* explicit build or clear for L since, is answered by an index of kind a
\* and metric m: the fallback never takes the place of an explicit index.
C7_ExplicitIndexAnswers ==
    ev.op = "search" /\ ev.want # NoPair => ev.pair = ev.want

\* C8: IndexService.search never returns the id of a chunk that was deleted
\* from the Store before the search began, with or without filters.
C8_NoDeletedIds ==
    ev.op = "search" => Range(ev.ids) \cap ev.gone = {}

\* C9: the search endpoint never fails because a result's chunk is missing
\* from the Store: such a result is dropped, and every item of the response
\* was built from a chunk that the Store held when the item was assembled.
C9_MissingChunksAreDropped ==
    /\ ev.op = "search_chunks" => ev.res \in {"200", "400"}
    /\ \A t \in Threads : \A i \in DOMAIN loc[t].items : loc[t].items[i].in_store
    /\ ev.op = "search_chunks" /\ ev.res = "200" =>
           /\ Len(ev.ids) <= ev.got
           /\ \A i \in DOMAIN ev.ids : ev.ids[i].in_store

\* a response that lost a result whose chunk had left the Store
C9_Witness ==
    ev.op = "search_chunks" /\ ev.res = "200" /\ Len(ev.ids) < ev.got

-----------------------------------------------------------------------------
(***************************************************************************)
(* Sequential use (SeqSpec, SnapshotSpec).                                 *)
(***************************************************************************)
\* a call of create_chunk or update_chunk that may still raise
\* DimensionMismatch: it starts with this step, or it is on its way to the
\* test of embedding_dim
MayStillRaise ==
    \/ \E t \in Threads : pc[t] \in {"uc_get_document", "v_get_library", "v_check"}
    \/ \E t \in Threads : /\ pc[t] = "idle"
                          /\ loc'[t].op \in {"create_chunk", "update_chunk"}

\* C5: sequentially, once a create_chunk with an embedding of length d has
\* succeeded in library L, L.embedding_dim is d and stays d; a later
\* create_chunk or update_chunk in L stores an embedding only if its length
\* is d, any other length fails with DimensionMismatch(expected = d, got =
\* the length), and no step of a call up to that failure changes the chunk
\* table, a chunk or an embedding_dim.
C5_DimensionFixedByFirstChunk ==
    /\ [](\A l \in libraries :
            admitted[l] # None => libHeap[l].embedding_dim = admitted[l])
    /\ [](ev.op \in {"create_chunk", "update_chunk"} /\ ev.res = "ok" /\ ev.got # 0
            => ev.id \in LibIds /\ ev.got = admitted[ev.id])
    /\ [](ev.res = "DimensionMismatch"
            => /\ admitted[ev.id] # None
               /\ ev.expected = admitted[ev.id]
               /\ ev.got # ev.expected)
    /\ [][MayStillRaise => UNCHANGED <<chunks, chunkHeap, libraries, libHeap>>]_vars

\* an update_chunk refused because its embedding has another length than
\* the library's first chunk
C5_Witness ==
    /\ ev.op = "update_chunk" /\ ev.res = "DimensionMismatch"
    /\ ev.expected = admitted[ev.id] /\ ev.got # ev.expected

\* C10: a SnapshotService.load that fails leaves the three tables exactly as
\* they were before the call.
C10_FailedLoadChangesNothing ==
    ev.op = "load" /\ ev.res = "error" => ~ev.changed

-----------------------------------------------------------------------------
(***************************************************************************)
(* Snapshot round trips (RoundTripSpec).                                   *)
(***************************************************************************)
\* what IndexService.search answers from an index without filters: the ids,
\* or the ValueError of the query
SearchAnswer(index, vector, k) ==
    LET query_k == _calculate_query_k(k, FALSE)
    IN  IF IndexQueryRaises(index, vector, query_k) THEN <<"ValueError">>
        ELSE Take(IndexQuery(index, vector, query_k), k)

\* a load that directly follows a save, with the listings and the pairs of
\* the indexes as they were before
SavedThenLoaded ==
    /\ ev'.res = "ok"
    /\ TableView(libraries', libHeap', documents', docHeap', chunks', chunkHeap')
         = TableView(libraries, libHeap, documents, docHeap, chunks, chunkHeap)
    /\ \A l \in DOMAIN indices :
          /\ l \in DOMAIN indices' /\ l \in DOMAIN index_meta'
          /\ indices'[l].kind = indices[l].kind
          /\ indices'[l].metric = indices[l].metric
          /\ index_meta'[l] = index_meta[l]

\* C11 as stated: sequentially, save() followed by load() of the saved file
\* leaves the three listings equal, every library that had an index with an
\* index of the same pair, and every search answered with the same ids.
C11_RoundTripSameSearch ==
    [][ev.op = "save" /\ ev'.op = "load" =>
          /\ SavedThenLoaded
          /\ \A l \in DOMAIN indices, v \in QueryVectors, k \in 1..MaxK :
                SearchAnswer(indices'[l], v, k) = SearchAnswer(indices[l], v, k)]_vars

\* C11 amended: the listings and the pairs are kept, and every index is
\* rebuilt over the library's current chunks with a non-empty embedding, so
\* a search returns the same ids as before exactly for the indexes that
\* were built over those chunks.
C11_RoundTripRebuilds ==
    [][ev.op = "save" /\ ev'.op = "load" =>
          /\ SavedThenLoaded
          /\ \A l \in DOMAIN indices :
                /\ indices'[l].ids = valid_ids(l)
                /\ indices'[l].vectors = valid_vectors(l)
          /\ \A l \in DOMAIN indices, v \in QueryVectors, k \in 1..MaxK :
                indices[l].ids = valid_ids(l) /\ indices[l].vectors = valid_vectors(l)
                    => SearchAnswer(indices'[l], v, k) = SearchAnswer(indices[l], v, k)]_vars

\* a load that followed a save and left a library with a non-empty index
C11_Witness ==
    /\ ev.op = "load" /\ ev.prev = "save" /\ ev.res = "ok"
    /\ \E l \in DOMAIN indices : indices[l].ids # <<>>

-----------------------------------------------------------------------------
(***************************************************************************)
(* save() under concurrent writers (SaveSpec).                             *)
(***************************************************************************)
\* C12: what a save() writes is one state of the system: at some instant
\* between its two captures the Store's tables and the Registry's metadata
\* map were together equal to the tables and the metadata in the file.
C12_SaveWritesOneState ==
    ev.op = "save" => ~ev.torn

-----------------------------------------------------------------------------
(***************************************************************************)
(* The cross-check of create_chunk (CrossCheckSpec).                       *)
(***************************************************************************)
\* C13: a create_chunk(library_id, document_id, ...) goes on past its first
\* section only if the document is in the Store and its library_id is the
\* supplied one, otherwise it fails with NotFound; and the step that fails
\* with NotFound adds no chunk and leaves every embedding_dim as it was.
C13_CrossCheck ==
    [][/\ \A t \in Threads :
             pc[t] = "idle" /\ loc'[t].op = "create_chunk" =>
                 /\ loc'[t].doc \in documents
                 /\ docHeap[loc'[t].doc].library_id = loc'[t].lib
       /\ ev'.op = "create_chunk" /\ ev'.res = "NotFound" =>
             /\ \/ ev'.ids[1] \notin documents
                \/ docHeap[ev'.ids[1]].library_id # ev'.id
             /\ UNCHANGED <<chunks, chunkHeap, libraries, libHeap>>]_vars

\* a create_chunk refused for a document that exists in another library
\* than the supplied one
C13_Witness ==
    /\ ev.op = "create_chunk" /\ ev.res = "NotFound"
    /\ ev.ids[1] \in documents
    /\ docHeap[ev.ids[1]].library_id # ev.id

-----------------------------------------------------------------------------
(***************************************************************************)
(* The validation of build_index (BuildSpec).                              *)
(***************************************************************************)
\* build_index called with the names a and m is refused as the pair
\* (algorithm, metric) requires, and a refusal leaves the Registry alone
Validated(algorithm(_), metric(_)) ==
    /\ \A t \in Threads :
          pc[t] = "idle" /\ loc'[t].op = "build_index" =>
              /\ algorithm(loc'[t].given) \in IndexAlgorithm
              /\ metric(loc'[t].given) \in ALGORITHM_METRICS(algorithm(loc'[t].given))
    /\ ev'.op = "build_index" /\ ev'.res # "ok" =>
          /\ algorithm(ev'.given) \notin IndexAlgorithm => ev'.res = "InvalidAlgorithm"
          /\ /\ algorithm(ev'.given) \in IndexAlgorithm
             /\ metric(ev'.given) \notin ALGORITHM_METRICS(algorithm(ev'.given))
             => ev'.res = "InvalidMetric"
          /\ UNCHANGED registry

AsGiven1(given) == given[1]
AsGiven2(given) == given[2]
Lowered1(given) == Lower(given[1])
Lowered2(given) == Lower(given[2])

\* C14 as stated: build_index(L, a, m) fails with InvalidAlgorithm when a is
\* not one of linear, kdtree, lsh, and with InvalidMetric when a is one of
\* them and m is not a metric a supports; the failure leaves the Registry's
\* index and metadata as they were.
C14_InvalidNamesRejected ==
    [][Validated(AsGiven1, AsGiven2)]_vars

\* C14 amended: the same of the lower-cased names; build_index lower-cases
\* a and m before it validates them, so "LINEAR" is the algorithm linear.
C14_InvalidLoweredNamesRejected ==
    [][Validated(Lowered1, Lowered2)]_vars

\* a build refused for its metric while the Registry holds an entry
C14_Witness ==
    /\ ev.op = "build_index" /\ ev.res = "InvalidMetric"
    /\ ev.given[1] \in IndexAlgorithm
    /\ ev.id \in DOMAIN indices

-----------------------------------------------------------------------------
(***************************************************************************)
(* C15.  In a sequential run, when build_index(L, a, m) has succeeded for  *)
(* a compatible pair, get_index_info(L) returns (a, m) whatever entry L    *)
(* had before; after clear_index(L), and while L has no entry because      *)
(* nothing was built for it, get_index_info(L) returns "none" with the     *)
(* default metric.                                                         *)
(***************************************************************************)
C15_IndexInfoFollowsBuilds ==
    /\ ev.op = "build_index" /\ ev.res = "ok" /\ ev.given \in CompatiblePairs
       => get_index_info(ev.id) = ev.given
    /\ ev.op = "clear_index" => get_index_info(ev.id) = <<"none", default_metric>>
    /\ \A l \in DOMAIN libHeap :
          l \notin DOMAIN indices => get_index_info(l) = <<"none", default_metric>>

\* a KD-tree index has replaced an LSH index
C15_Witness ==
    /\ ev.op = "build_index" /\ ev.res = "ok"
    /\ ev.given = <<"kdtree", "euclidean">>
    /\ ev.replaced = <<"lsh", "cosine">>

-----------------------------------------------------------------------------
(***************************************************************************)
(* C16.  A search with k >= 1 that finds no Registry entry for its library *)
(* lists the library's chunks; if at least one has a non-empty embedding   *)
(* it builds a Linear index with the default metric over exactly the       *)
(* chunks with non-empty embeddings, installs it together with the         *)
(* metadata (linear, default metric) and answers from it; if there is no   *)
(* such chunk it returns [] and installs nothing.                          *)
(***************************************************************************)
FallbackBuilt(t) ==
    pc[t] = "s_list_chunks" /\ pc'[t] # "s_list_chunks" =>
        IF valid_ids(loc[t].lib) = <<>>
        THEN /\ ev'.op = "search" /\ ev'.t = t /\ ev'.ids = <<>>
             /\ UNCHANGED registry
        ELSE /\ pc'[t] = "s_install"
             /\ loc'[t].idx = LinearIndex(default_metric, valid_vectors(loc[t].lib),
                                          valid_ids(loc[t].lib))

FallbackInstalled(t) ==
    pc[t] = "s_install" /\ pc'[t] # "s_install" =>
        /\ indices'[loc[t].lib] = loc[t].idx
        /\ index_meta'[loc[t].lib] = [algorithm |-> "linear", metric |-> default_metric]
        /\ loc[t].filters = {} /\ ~LinearQueryRaises(loc[t].idx, loc[t].vec, loc[t].k)
           => /\ ev'.op = "search" /\ ev'.t = t
              /\ ev'.ids = LinearQuery(loc[t].idx, loc[t].vec, loc[t].k)

C16_FallbackBuildsAndAnswers ==
    [][\A t \in Threads : FallbackBuilt(t) /\ FallbackInstalled(t)]_vars

-----------------------------------------------------------------------------
(***************************************************************************)
(* C17.  IndexService.search returns [] when k <= 0; otherwise it returns  *)
(* at most k ids, pairwise distinct, in non-increasing order of the score  *)
(* that the index it queried gives them, whatever the kind of the index,   *)
(* the query vector (of the built dimensionality) and the filters.         *)
(***************************************************************************)
\* the vector an index holds for an id
VectorOf(index, id) ==
    index.vectors[CHOOSE p \in DOMAIN index.ids : index.ids[p] = id]

\* ids are at most k, distinct and ranked by the index for the query q
Ranked(ids, index, q, k) ==
    /\ Len(ids) <= k
    /\ \A i, j \in DOMAIN ids : i # j => ids[i] # ids[j]
    /\ \A i \in DOMAIN ids : \A j \in DOMAIN ids :
          i < j => ~ScoreGreater(index.metric, q,
                                 VectorOf(index, ids[j]), VectorOf(index, ids[i]))

\* the step of thread t with which IndexService.search returns
SearchReturnStep(t) ==
    /\ pc[t] \in {"idle", "s_list_chunks", "s_install", "s_filter"}
    /\ pc'[t] \in {"e_get_chunk", "e_index_info"}

\* the index that search queried in that step
QueriedIndex(t) ==
    IF pc[t] = "idle"
    THEN IF loc'[t].lib \in DOMAIN indices THEN indices[loc'[t].lib] ELSE NoIndex
    ELSE loc[t].idx

C17_AtMostKRankedDistinct ==
    [][\A t \in Threads : SearchReturnStep(t) =>
          /\ ev'.op = "search" /\ ev'.t = t
          /\ IF loc'[t].k <= 0 THEN ev'.ids = <<>>
             ELSE Ranked(ev'.ids, QueriedIndex(t), loc'[t].vec, loc'[t].k)]_vars

\* a filtered search with k = 2 on an LSH index has returned two ids whose
\* scores differ, out of three chunks
C17_Witness ==
    /\ ev.op = "search" /\ ev.pair = <<"lsh", "cosine">>
    /\ loc[ev.t].k = 2 /\ loc[ev.t].filters # {}
    /\ Len(ev.ids) = 2
    /\ ev.id \in DOMAIN indices
    /\ CosineGreater(loc[ev.t].vec, VectorOf(indices[ev.id], ev.ids[1]),
                     VectorOf(indices[ev.id], ev.ids[2]))
    /\ Len(indices[ev.id].ids) = NumRanked

-----------------------------------------------------------------------------
(***************************************************************************)
(* C18.  When search is called with non-empty filters, every id it returns *)
(* names a chunk of the Store whose metadata, as the Store holds it now,   *)
(* has every filter key with the filter's value; and every chunk among the *)
(* top query_k results of the index that satisfies the filters is          *)
(* returned, unless k results that satisfy them rank ahead of it.  The     *)
(* Store is the one the search read: no other call runs during the search. *)
(***************************************************************************)
\* chunk c is in the Store and its metadata has every pair of the filters
Satisfies(c, filters) ==
    c \in Range(chunks) /\ filters \subseteq chunkHeap[c].metadata

\* index.query(vector, query_k) of the entry of library l, [] without one
TopQueryK(l, vector, k) ==
    IF l \in DOMAIN indices
    THEN IndexQuery(indices[l], vector, _calculate_query_k(k, TRUE))
    ELSE <<>>

C18_FiltersOnCurrentMetadata ==
    ev.op = "search" /\ loc[ev.t].filters # {} =>
        LET l == loc[ev.t]
            top == TopQueryK(ev.id, l.vec, l.k)
        IN  /\ \A i \in DOMAIN ev.ids : Satisfies(ev.ids[i], l.filters)
            /\ \A p \in DOMAIN top :
                  Satisfies(top[p], l.filters) =>
                      \/ top[p] \in Range(ev.ids)
                      \/ Cardinality({q \in 1..(p - 1) : Satisfies(top[q], l.filters)}) >= l.k

\* a search with k = 1 that skipped the best result, whose metadata does
\* not satisfy the filters, returned the next one and left out a third
\* that satisfies them too
C18_Witness ==
    /\ ev.op = "search" /\ loc[ev.t].filters # {} /\ loc[ev.t].k = 1
    /\ Len(ev.ids) = 1
    /\ LET top == TopQueryK(ev.id, loc[ev.t].vec, 1)
       IN  /\ Len(top) = NumRanked
           /\ ~Satisfies(top[1], loc[ev.t].filters)
           /\ ev.ids[1] = top[2]
           /\ Satisfies(top[3], loc[ev.t].filters)

-----------------------------------------------------------------------------
(***************************************************************************)
(* C19.  For a KD-tree index built over any points (duplicates and points  *)
(* with equal coordinates on a split axis included), any query q and any   *)
(* k >= 1, query(q, k) returns min(k, N) distinct ids of the index,        *)
(* nearest first, and no point left out is nearer to q than the last one   *)
(* returned: the ids are those of a brute-force Euclidean top-k, up to the *)
(* choice among points tied at the k-th distance.                          *)
(***************************************************************************)
\* result is a brute-force Euclidean top-k of the index for q, best first
BruteForceTopK(result, index, q, k) ==
    LET d(id) == SqDist(q, VectorOf(index, id))
    IN  /\ Len(result) = Min(k, Len(index.ids))
        /\ Range(result) \subseteq Range(index.ids)
        /\ \A i, j \in DOMAIN result : i < j =>
               result[i] # result[j] /\ d(result[i]) <= d(result[j])
        /\ \A id \in Range(index.ids) \ Range(result) :
               \A i \in DOMAIN result : d(result[i]) <= d(id)

C19_KDTreeIsBruteForce ==
    \A l \in DOMAIN indices :
        indices[l].kind = "kdtree" =>
            \A q \in KDQueries, k \in 1..(NumKD + 1) :
                BruteForceTopK(KDTreeQuery(indices[l], q, k), indices[l], q, k)

\* a tree over a duplicate point and points that share both coordinates of
\* the root with others, where a query leaves out a point of the far side
\* that is as near as the last one returned
C19_Witness ==
    /\ 1 \in DOMAIN indices /\ indices[1].kind = "kdtree"
    /\ LET index == indices[1]
           root == build_kd(index.vectors, index.ids, 0)
       IN  /\ \E i, j \in DOMAIN index.vectors :
                  i # j /\ index.vectors[i] = index.vectors[j]
           /\ \E i \in DOMAIN index.vectors :
                  /\ index.ids[i] # root.point_id
                  /\ index.vectors[i][1] = root.point[1]
           /\ \E q \in KDQueries :
                  LET result == KDTreeQuery(index, q, 2)
                  IN  \E id \in Range(index.ids) \ Range(result) :
                          SqDist(q, VectorOf(index, id))
                              = SqDist(q, VectorOf(index, result[2]))

-----------------------------------------------------------------------------
(***************************************************************************)
(* C20.  For a Linear index, any query and any k >= 1, query returns the   *)
(* first k entries of the list of all (id, score) pairs in descending      *)
(* order of score, where entries of equal score keep the order in which    *)
(* build received them.                                                    *)
(***************************************************************************)
\* the position of an id in the lists given to build
PositionOf(index, id) == CHOOSE p \in DOMAIN index.ids : index.ids[p] = id

\* entry a comes before entry b in the stable descending order for q
RanksBefore(index, q, a, b) ==
    \/ ScoreGreater(index.metric, q, VectorOf(index, a), VectorOf(index, b))
    \/ /\ ~ScoreGreater(index.metric, q, VectorOf(index, b), VectorOf(index, a))
       /\ PositionOf(index, a) < PositionOf(index, b)

\* result is the first k entries of that order
FirstKStable(result, index, q, k) ==
    /\ Len(result) = Min(k, Len(index.ids))
    /\ Range(result) \subseteq Range(index.ids)
    /\ \A i, j \in DOMAIN result : i < j => RanksBefore(index, q, result[i], result[j])
    /\ \A id \in Range(index.ids) \ Range(result) :
           \A i \in DOMAIN result : RanksBefore(index, q, result[i], id)

C20_LinearFirstKStable ==
    \A l \in DOMAIN indices :
        indices[l].kind = "linear" =>
            \A q \in LinearQueries, k \in 1..(NumLinear + 1) :
                FirstKStable(LinearQuery(indices[l], q, k), indices[l], q, k)

\* a cosine index whose build order runs against the ids, queried where
\* two entries tie ahead of a third: the earlier of the two comes first
C20_Witness ==
    /\ 1 \in DOMAIN indices /\ indices[1].kind = "linear"
    /\ indices[1].metric = "cosine"
    /\ indices[1].ids[1] > indices[1].ids[2]
    /\ \E q \in LinearQueries :
           LET index == indices[1]
               result == LinearQuery(index, q, 2)
           IN  /\ ~ScoreGreater("cosine", q, VectorOf(index, result[1]),
                                VectorOf(index, result[2]))
               /\ PositionOf(index, result[1]) < PositionOf(index, result[2])
               /\ \E id \in Range(index.ids) \ Range(result) :
                      ScoreGreater("cosine", q, VectorOf(index, result[2]),
                                   VectorOf(index, id))

-----------------------------------------------------------------------------
(***************************************************************************)
(* C21.  For an index of any of the three kinds built over at least one    *)
(* vector of length D, query(v, k) with k >= 1 and a v of another length   *)
(* raises the dimension-mismatch error instead of returning results, and   *)
(* IndexService.search does not return for such a query: the error passes  *)
(* to its caller.  An index built from empty input answers [] to every     *)
(* query, without an error.                                                *)
(***************************************************************************)
\* what query(v, k) of one index does for every v and k >= 1
QueryGuardsDimension(index) ==
    \A v \in QueryVectors, k \in 1..(MaxK + 1) :
        IF index.vectors = <<>>
        THEN ~IndexQueryRaises(index, v, k) /\ IndexQuery(index, v, k) = <<>>
        ELSE Len(v) # Len(index.vectors[1]) => IndexQueryRaises(index, v, k)

C21_DimensionMismatchRaises ==
    /\ [](\A l \in DOMAIN indices : QueryGuardsDimension(indices[l]))
    /\ [][\A t \in Threads :
            /\ SearchReturnStep(t) /\ loc'[t].k >= 1
               /\ QueriedIndex(t).vectors # <<>>
               => Len(loc'[t].vec) = Len(QueriedIndex(t).vectors[1])
            /\ pc[t] = "idle" /\ ev'.op = "search_chunks" /\ ev'.res = "400"
               => pc'[t] = "idle" /\ ev'.ids = <<>>]_vars

\* a search on a non-empty LSH index has failed with the error
C21_Witness ==
    /\ ev.op = "search_chunks" /\ ev.res = "400"
    /\ ev.id \in DOMAIN indices
    /\ indices[ev.id].kind = "lsh"
    /\ indices[ev.id].vectors # <<>>

-----------------------------------------------------------------------------
(***************************************************************************)
(* C22.  dot, cosine_similarity and euclidean_distance, applied to two     *)
(* sequences of different lengths, fail with DimensionMismatch instead of  *)
(* returning a value.                                                      *)
(***************************************************************************)
C22_DifferentLengthsFail ==
    ev.op \in VectorOps /\ Len(loc[ev.t].emb) # Len(loc[ev.t].vec)
        => ev.res = "DimensionMismatch"

-----------------------------------------------------------------------------
(***************************************************************************)
(* C23.  delete_document(D) removes D and exactly the chunks whose         *)
(* document_id is D, and leaves every library, every other document and    *)
(* every other chunk as it was; delete_chunk(C) removes only C; either     *)
(* operation on an id the Store does not hold leaves the three tables      *)
(* unchanged, and raises nothing.                                          *)
(***************************************************************************)
C23_DeletesAreLocal ==
    [][/\ ev'.op = "delete_document" =>
            /\ ev'.res = "ok"
            /\ IF ev'.id \in documents
               THEN /\ documents' = documents \ {ev'.id}
                    /\ chunks' = SeqFilter(chunks,
                           {c \in Range(chunks) : chunkHeap[c].document_id # ev'.id})
                    /\ UNCHANGED <<libraries, libHeap, docHeap, chunkHeap>>
               ELSE UNCHANGED store
       /\ ev'.op = "delete_chunk" =>
            /\ ev'.res = "ok"
            /\ chunks' = SeqFilter(chunks, Range(chunks) \ {ev'.id})
            /\ UNCHANGED <<libraries, documents, libHeap, docHeap, chunkHeap>>]_vars


\* ---------------------------------------------------------------------------
\* IndexService.rebuild_indices
\* ---------------------------------------------------------------------------

\* settings.default_index
default_index == "linear"

\* meta.get(key, default): a key the entry does not carry takes the default
MetaGet(value, default) == IF value = "absent" THEN default ELSE value

\* the pair build_index is called with for one entry of the metadata
EntryPair(entry) ==
    <<MetaGet(entry.algorithm, default_index), MetaGet(entry.metric, default_metric)>>

\* the entries a metadata mapping is made of: a library of the Store or a
\* library id the Store does not know, with a pair that is valid, one that
\* _create_index rejects, or no pair at all
RebuildEntries ==
    {[library_id |-> l, algorithm |-> p[1], metric |-> p[2]] :
        l \in {1, UnknownLibrary},
        p \in {<<"linear", "euclidean">>, <<"kdtree", "cosine">>, <<"absent", "absent">>}}

\* the metadata mappings, in the order of their items()
RebuildInputs ==
    {<<>>} \cup {<<e>> : e \in RebuildEntries}
           \cup {m \in RebuildEntries \X RebuildEntries :
                    m[1].library_id # m[2].library_id}

\* the end of one turn of the loop of rebuild_indices
ri_next(base, t) ==
    IF loc[t].pos < Len(loc[t].items)
    THEN /\ loc' = [base EXCEPT ![t] = [loc[t] EXCEPT !.pos = loc[t].pos + 1,
                                                      !.idx = NoIndex]]
         /\ Goto(t, "ri_build_index")
         /\ ev' = NoEvent
    ELSE /\ loc' = [base EXCEPT ![t] = Idle]
         /\ pc' = [pc EXCEPT ![t] = "idle"]
         /\ ev' = [Event("rebuild_indices", t, Len(loc[t].items), "ok")
                      EXCEPT !.ids = base[t].kept]

\* IndexService.rebuild_indices(metadata), up to its first build_index
rebuild_indices(t, metadata) ==
    /\ pc[t] = "idle"
    /\ IF metadata = <<>>
       THEN /\ ev' = Event("rebuild_indices", t, 0, "ok")
            /\ UNCHANGED <<pc, loc>>
       ELSE /\ loc' = [loc EXCEPT ![t] = [Idle EXCEPT !.op = "rebuild_indices",
                                                       !.items = metadata, !.pos = 1]]
            /\ Goto(t, "ri_build_index")
            /\ ev' = NoEvent
    /\ UNCHANGED <<store, registry, explicit, admitted, locks, objects, files>>

\* one turn of the loop: build_index up to the install; its exception is
\* logged and the loop goes on
ri_build_index(t) ==
    /\ pc[t] = "ri_build_index"
    /\ LET entry == loc[t].items[loc[t].pos]
           pair == EntryPair(entry)
           created == _create_index(Lower(pair[1]), Lower(pair[2]))
       IN  IF created # "ok" \/ _validate_inputs_raises(valid_vectors(entry.library_id))
           THEN ri_next(loc, t)
           ELSE /\ loc' = [loc EXCEPT ![t].idx =
                              [kind |-> Lower(pair[1]), metric |-> Lower(pair[2]),
                               ids |-> valid_ids(entry.library_id),
                               vectors |-> valid_vectors(entry.library_id)]]
                /\ Goto(t, "ri_install")
                /\ ev' = NoEvent
    /\ UNCHANGED <<store, registry, explicit, admitted, locks, objects, files>>

\* build_index of one entry, the install under the Registry's write lock
ri_install(t) ==
    /\ pc[t] = "ri_install"
    /\ LET library_id == loc[t].items[loc[t].pos].library_id
       IN  /\ InstallEntry(library_id, loc[t].idx)
           /\ explicit' = [l \in LibIds |->
                              IF l = library_id
                              THEN <<loc[t].idx.kind, loc[t].idx.metric>>
                              ELSE explicit[l]]
           /\ ri_next([NoteMeta(ForgetWant(loc, library_id), snapshot, index_meta')
                          EXCEPT ![t].kept = Append(loc[t].kept, library_id)], t)
    /\ UNCHANGED <<store, admitted, locks, objects, files>>

RebuildStep(t) ==
    \/ \E metadata \in RebuildInputs : rebuild_indices(t, metadata)
    \/ ri_build_index(t)
    \/ ri_install(t)

\* the rebuild_indices of one caller next to the chunk operations of the requests
RebuildNext == (\E t \in Threads : ChunkStep(t, {{}})) \/ RebuildStep(Client)
RebuildSpec == InitOneDocument /\ [][RebuildNext]_vars

\* rebuild_indices with no other request in flight
SeqRebuildNext == ChunkStep(Client, {{}}) \/ RebuildStep(Client)
SeqRebuildSpec == InitOneDocument /\ [][SeqRebuildNext]_vars

\* ---------------------------------------------------------------------------
\* C24: rebuild_indices(metadata) never raises, and every entry whose
\* (algorithm, metric) pair is valid gets an index with that pair installed,
\* whatever entries before or after it in the iteration fail.
\* ---------------------------------------------------------------------------

\* the turn of the loop that thread t takes in this step, if it takes one
RebuildTurn(t) ==
    /\ pc[t] \in {"ri_build_index", "ri_install"}
    /\ pc'[t] # pc[t] \/ loc'[t].pos # loc[t].pos

RebuildEntry(t) == loc[t].items[loc[t].pos]

C24_ValidEntriesInstalled ==
    [][/\ ev'.op = "rebuild_indices" => ev'.res = "ok"
       /\ \A t \in Threads :
            RebuildTurn(t) =>
              LET entry == RebuildEntry(t)
                  pair == EntryPair(entry)
              IN  /\ (pc[t] = "ri_build_index" /\ pair \in CompatiblePairs)
                        => pc'[t] = "ri_install"
                  /\ pc[t] = "ri_install"
                        => /\ pair \in CompatiblePairs
                           /\ entry.library_id \in DOMAIN indices'
                           /\ indices'[entry.library_id].kind = pair[1]
                           /\ indices'[entry.library_id].metric = pair[2]
                           /\ entry.library_id \in DOMAIN index_meta'
                           /\ index_meta'[entry.library_id] =
                                  [algorithm |-> pair[1], metric |-> pair[2]]]_vars


\* ---------------------------------------------------------------------------
\* api/routers/embed.py: call_cohere_with_retry
\* ---------------------------------------------------------------------------

EMBEDDING_MAX_RETRIES == 3
EMBEDDING_RETRY_DELAY == 1
EMBEDDING_RETRY_BACKOFF == 2

\* what one client.post can come to: a response with status 200, a 4xx, a
\* 5xx or another status (a redirect), a httpx.TimeoutException, and a
\* httpx.RequestError that is no timeout: a refused connection, or the
\* ProxyError of a proxy that answered "504 Gateway Timeout"
ProviderOutcomes ==
    {"200", "4xx", "5xx", "3xx", "timeout", "connect_error", "proxy_error"}

\* the text of last_error after a failed attempt, word by word
LastError(outcome) ==
    CASE outcome = "5xx" -> <<"Server", "error:", "503">>
      [] outcome = "3xx" -> <<"Server", "error:", "302">>
      [] outcome = "timeout" -> <<"Timeout:">>
      [] outcome = "connect_error" -> <<"Request", "error:", "Connection", "refused">>
      [] outcome = "proxy_error" -> <<"Request", "error:", "504", "Gateway", "Timeout">>

\* str.lower on one word
LowerWord(word) ==
    CASE word = "Timeout:" -> "timeout:"
      [] word = "Timeout" -> "timeout"
      [] word = "Server" -> "server"
      [] word = "Request" -> "request"
      [] word = "Connection" -> "connection"
      [] word = "Gateway" -> "gateway"
      [] OTHER -> word

\* "timeout" in str(last_error).lower()
MentionsTimeout(last_error) ==
    \E i \in DOMAIN last_error : LowerWord(last_error[i]) \in {"timeout", "timeout:"}

\* the HTTPException raised once every attempt has failed
AllRetriesFailed(last_error) == IF MentionsTimeout(last_error) THEN "504" ELSE "502"

\* the call returns or raises: the event carries the number of POSTs, the
\* sleeps so far and the outcome of the last POST
CohereEnds(t, res, outcome) ==
    /\ ev' = [Event("call_cohere_with_retry", t, loc[t].pos + 1, res)
                 EXCEPT !.ids = loc[t].kept, !.prev = outcome]
    /\ Return(t)

\* call_cohere_with_retry up to its first POST
call_cohere_with_retry(t) ==
    /\ pc[t] = "idle"
    /\ loc' = [loc EXCEPT ![t] = [Idle EXCEPT !.op = "call_cohere_with_retry",
                                              !.pos = 0, !.k = EMBEDDING_RETRY_DELAY]]
    /\ Goto(t, "cohere_post")
    /\ ev' = NoEvent
    /\ UNCHANGED <<store, registry, explicit, admitted, locks, objects, files>>

\* one attempt that returns a 200 at once and takes every other response for
\* a failure to retry
cohere_post_retries_4xx(t, outcome) ==
    /\ pc[t] = "cohere_post"
    /\ IF outcome = "200"
       THEN CohereEnds(t, outcome, outcome)
       ELSE IF loc[t].pos < EMBEDDING_MAX_RETRIES - 1
       THEN /\ loc' = [loc EXCEPT ![t].items = Append(loc[t].items, outcome)]
            /\ Goto(t, "cohere_sleep")
            /\ ev' = NoEvent
       ELSE CohereEnds(t, "502", outcome)
    /\ UNCHANGED <<store, registry, explicit, admitted, locks, objects, files>>

\* one attempt of the loop: await client.post, and what follows it up to the
\* next await or the end of the call
cohere_post(t, outcome) ==
    /\ pc[t] = "cohere_post"
    /\ IF outcome \in {"200", "4xx"}
       THEN CohereEnds(t, outcome, outcome)
       ELSE IF loc[t].pos < EMBEDDING_MAX_RETRIES - 1
       THEN /\ loc' = [loc EXCEPT ![t].items = Append(loc[t].items, outcome)]
            /\ Goto(t, "cohere_sleep")
            /\ ev' = NoEvent
       ELSE CohereEnds(t, AllRetriesFailed(LastError(outcome)), outcome)
    /\ UNCHANGED <<store, registry, explicit, admitted, locks, objects, files>>

\* await asyncio.sleep(delay), the backoff and the next turn of the loop
cohere_sleep(t) ==
    /\ pc[t] = "cohere_sleep"
    /\ loc' = [loc EXCEPT ![t].kept = Append(loc[t].kept, loc[t].k),
                          ![t].k = loc[t].k * EMBEDDING_RETRY_BACKOFF,
                          ![t].pos = loc[t].pos + 1]
    /\ Goto(t, "cohere_post")
    /\ ev' = NoEvent
    /\ UNCHANGED <<store, registry, explicit, admitted, locks, objects, files>>

CohereStep(t) ==
    \/ call_cohere_with_retry(t)
    \/ \E outcome \in ProviderOutcomes : cohere_post(t, outcome)
    \/ cohere_sleep(t)

\* the embed requests of the event loop, interleaved at their awaits
CohereNext == \E t \in Threads : CohereStep(t)
CohereSpec == Init /\ [][CohereNext]_vars

\* ---------------------------------------------------------------------------
\* C25: call_cohere_with_retry issues at most 3 POSTs whatever the provider
\* answers, and it stops at the first POST that yields a 200 or a 4xx: that
\* response is returned with no further POST and no further sleep.
\* ---------------------------------------------------------------------------

\* thread t makes a POST in this step
Posts(t) == pc[t] = "cohere_post" /\ pc'[t] # "cohere_post"

C25_AtMostThreePostsStopAtAnswer ==
    [][\A t \in Threads :
         /\ Posts(t) => Len(loc[t].items) + 1 <= 3
         /\ (Posts(t) /\ ev'.op = "call_cohere_with_retry" /\ ev'.prev \in {"200", "4xx"}) =>
               /\ ev'.res = ev'.prev
               /\ ev'.id = Len(loc[t].items) + 1
               /\ ev'.ids = loc[t].kept
               /\ pc'[t] = "idle"
         /\ (Posts(t) /\ pc'[t] # "idle") =>
               loc'[t].items[Len(loc'[t].items)] \notin {"200", "4xx"}]_vars

\* a 4xx on the second POST, returned after the one sleep before it
C25_Witness ==
    /\ ev.op = "call_cohere_with_retry"
    /\ ev.res = "4xx"
    /\ ev.id = 2
    /\ ev.ids = <<1>>


\* ---------------------------------------------------------------------------
\* C26: when every attempt of call_cohere_with_retry fails with a 5xx, a
\* timeout or a request error, exactly 3 attempts are made with exactly 2
\* sleeps between them, of 1s and then 2s, and none after the last; the call
\* then fails with 504 if the last failure was a timeout and with 502
\* otherwise. When earlier attempts fail and a later one returns 200, the 200
\* is returned after one sleep per failed attempt.
\* ---------------------------------------------------------------------------

\* the failures the claim speaks of
Failures == {"5xx", "timeout", "connect_error", "proxy_error"}

C26_FailuresSleepsAndStatus ==
    [][\A t \in Threads :
         (Posts(t) /\ ev'.op = "call_cohere_with_retry"
            /\ Range(loc[t].items) \subseteq Failures) =>
           /\ ev'.prev \in Failures =>
                /\ ev'.id = 3
                /\ Len(loc[t].items) = 2
                /\ ev'.ids = <<1, 2>>
                /\ ev'.res = IF ev'.prev = "timeout" THEN "504" ELSE "502"
           /\ ev'.prev = "200" =>
                /\ ev'.res = "200"
                /\ Len(ev'.ids) = Len(loc[t].items)
                /\ ev'.id = Len(loc[t].items) + 1]_vars


\* ---------------------------------------------------------------------------
\* core/locks.py: ReaderWriterLock, as the services use it. A call of a
\* service runs through the scoped helpers (read_lock, write_lock) of the two
\* locks: loc[t].items holds its acquires and releases in the order of the
\* code, loc[t].pos the one the thread is at, and loc[t].kept the blocks it
\* is inside of.
\* ---------------------------------------------------------------------------

Acquire(name, mode) == [do |-> "acquire", lock |-> name, mode |-> mode]
Release(name, mode) == [do |-> "release", lock |-> name, mode |-> mode]

\* with lock.read_lock(): ... / with lock.write_lock(): ... around the
\* acquires and releases of its body
Scoped(name, mode, body) == <<Acquire(name, mode)>> \o body \o <<Release(name, mode)>>

CurrentSection(t) == loc[t].items[loc[t].pos]

\* where a thread stands before an acquire or a release
Label(instruction) ==
    IF instruction.do = "acquire" THEN "lock_acquire" ELSE "lock_release"

\* the condition of the while loop of acquire_read, without its test of the
\* waiting writers
MustWaitToRead_while_writing(l) == l.writer_active

\* the condition of the while loop of acquire_read
MustWaitToRead(l) == l.writer_active \/ l.waiting_writers > 0

\* the condition of the while loop of acquire_write, without its test of the
\* active readers
MustWaitToWrite_while_writing(l) == l.writer_active

\* the condition of the while loop of acquire_write
MustWaitToWrite(l) == l.writer_active \/ l.active_readers > 0

\* a notify that wakes the readers in the wait() of this lock and leaves its
\* writers asleep
notify_all_readers(positions, name) ==
    [u \in DOMAIN positions |->
        IF positions[u] = "ar_wait" /\ CurrentSection(u).lock = name
        THEN "ar_woken" ELSE positions[u]]

\* self._cond.notify_all(): every thread in the wait() of this lock wakes up
\* and will test its condition again
notify_all(positions, name) ==
    [u \in DOMAIN positions |->
        IF positions[u] \in {"ar_wait", "aw_wait"} /\ CurrentSection(u).lock = name
        THEN IF positions[u] = "ar_wait" THEN "ar_woken" ELSE "aw_woken"
        ELSE positions[u]]

\* a call of a service, up to its first scoped helper
service_call(t, program) ==
    /\ pc[t] = "idle"
    /\ loc' = [loc EXCEPT ![t] = [Idle EXCEPT !.op = "service_call",
                                              !.items = program, !.pos = 1]]
    /\ Goto(t, Label(program[1]))
    /\ ev' = NoEvent
    /\ UNCHANGED <<store, registry, explicit, admitted, files, locks, objects>>

\* the thread goes on to its next acquire or release with the blocks it is
\* now inside of, or the call returns
Advance(t, positions, inside) ==
    IF loc[t].pos < Len(loc[t].items)
    THEN /\ loc' = [loc EXCEPT ![t].pos = loc[t].pos + 1, ![t].kept = inside]
         /\ pc' = [positions EXCEPT ![t] = Label(loc[t].items[loc[t].pos + 1])]
         /\ ev' = NoEvent
    ELSE /\ loc' = [loc EXCEPT ![t] = Idle]
         /\ pc' = [positions EXCEPT ![t] = "idle"]
         /\ ev' = Event("service_call", t, 0, "ok")

\* the while loop of acquire_read and the statement after it, from the test
\* of the condition to the wait() or to the end of the method
ReadTest(t) ==
    LET name == CurrentSection(t).lock
        l == locks[name]
    IN  /\ IF MustWaitToRead(l)
           THEN /\ Goto(t, "ar_wait")
                /\ ev' = NoEvent
                /\ UNCHANGED <<locks, loc>>
           ELSE /\ locks' = [locks EXCEPT ![name].active_readers = l.active_readers + 1]
                /\ Advance(t, pc, Append(loc[t].kept, CurrentSection(t)))
        /\ UNCHANGED <<store, registry, explicit, admitted, files, objects>>

\* ReaderWriterLock.acquire_read
acquire_read(t) ==
    /\ pc[t] = "lock_acquire"
    /\ CurrentSection(t).mode = "read"
    /\ ReadTest(t)

\* acquire_read after its wait() has returned
ar_woken(t) ==
    /\ pc[t] = "ar_woken"
    /\ ReadTest(t)

\* the while loop of acquire_write and the statements after it, on the lock
\* as the thread finds it
WriteTest(t, l) ==
    LET name == CurrentSection(t).lock
    IN  /\ IF MustWaitToWrite(l)
           THEN /\ locks' = [locks EXCEPT ![name] = l]
                /\ Goto(t, "aw_wait")
                /\ ev' = NoEvent
                /\ UNCHANGED loc
           ELSE /\ locks' = [locks EXCEPT ![name] =
                                [l EXCEPT !.waiting_writers = l.waiting_writers - 1,
                                          !.writer_active = TRUE]]
                /\ Advance(t, pc, Append(loc[t].kept, CurrentSection(t)))
        /\ UNCHANGED <<store, registry, explicit, admitted, files, objects>>

\* ReaderWriterLock.acquire_write
acquire_write(t) ==
    /\ pc[t] = "lock_acquire"
    /\ CurrentSection(t).mode = "write"
    /\ LET l == locks[CurrentSection(t).lock]
       IN  WriteTest(t, [l EXCEPT !.waiting_writers = l.waiting_writers + 1])

\* acquire_write after its wait() has returned
aw_woken(t) ==
    /\ pc[t] = "aw_woken"
    /\ WriteTest(t, locks[CurrentSection(t).lock])

\* ReaderWriterLock.release_read, at the end of a read_lock() block
release_read(t) ==
    /\ pc[t] = "lock_release"
    /\ CurrentSection(t).mode = "read"
    /\ LET name == CurrentSection(t).lock
           l == locks[name]
       IN  /\ locks' = [locks EXCEPT ![name].active_readers = l.active_readers - 1]
           /\ Advance(t, IF l.active_readers - 1 = 0 THEN notify_all(pc, name) ELSE pc,
                      SubSeq(loc[t].kept, 1, Len(loc[t].kept) - 1))
    /\ UNCHANGED <<store, registry, explicit, admitted, files, objects>>

\* ReaderWriterLock.release_write, at the end of a write_lock() block
release_write(t) ==
    /\ pc[t] = "lock_release"
    /\ CurrentSection(t).mode = "write"
    /\ LET name == CurrentSection(t).lock
       IN  /\ locks' = [locks EXCEPT ![name].writer_active = FALSE]
           /\ Advance(t, notify_all(pc, name),
                      SubSeq(loc[t].kept, 1, Len(loc[t].kept) - 1))
    /\ UNCHANGED <<store, registry, explicit, admitted, files, objects>>

\* the steps of a thread inside a call
LockStep(t) ==
    \/ acquire_read(t)
    \/ ar_woken(t)
    \/ acquire_write(t)
    \/ aw_woken(t)
    \/ release_read(t)
    \/ release_write(t)

\* calls of one block: one scoped helper of one of the two locks
SingleSections ==
    {Scoped(name, mode, <<>>) : name \in LockNames, mode \in {"read", "write"}}

\* the threads that call the services at the same time
NumLockThreads == 3
LockThreads == 1..NumLockThreads

\* the state after construction, with no call in flight
InitLocks ==
    /\ libraries = {} /\ documents = {} /\ chunks = <<>>
    /\ libHeap = <<>> /\ docHeap = <<>> /\ chunkHeap = <<>>
    /\ indices = <<>> /\ index_meta = <<>>
    /\ pc = [t \in LockThreads |-> "idle"]
    /\ loc = [t \in LockThreads |-> Idle]
    /\ explicit = [l \in LibIds |-> NoPair]
    /\ admitted = [l \in LibIds |-> None]
    /\ files = NoFile
    /\ ev = NoEvent
    /\ locks = [name \in LockNames |-> Unlocked]
    /\ objects = NoObjects

RWNext ==
    \E t \in LockThreads :
        \/ \E program \in SingleSections : service_call(t, program)
        \/ LockStep(t)
RWSpec == InitLocks /\ [][RWNext]_vars

\* ---------------------------------------------------------------------------
\* C27: whatever the interleaving of acquire_read, release_read,
\* acquire_write and release_write made through the scoped helpers, a lock is
\* never held by a writer while a reader is active, and never by two writers.
\* ---------------------------------------------------------------------------

\* thread t is inside a block of this lock and mode
Holds(t, name, mode) ==
    \E i \in DOMAIN loc[t].kept :
        loc[t].kept[i].lock = name /\ loc[t].kept[i].mode = mode

Readers(name) == {t \in LockThreads : Holds(t, name, "read")}
Writers(name) == {t \in LockThreads : Holds(t, name, "write")}

\* thread t is inside an acquire of this lock and mode
Requests(t, name, mode) ==
    /\ pc[t] \in {"lock_acquire", "ar_wait", "ar_woken", "aw_wait", "aw_woken"}
    /\ CurrentSection(t).lock = name
    /\ CurrentSection(t).mode = mode

C27_WritersAreAlone ==
    \A name \in LockNames :
        /\ Writers(name) # {} => Readers(name) = {}
        /\ Cardinality(Writers(name)) <= 1

\* a writer holds the lock while another thread waits to read it
C27_Witness ==
    \E name \in LockNames, t \in LockThreads :
        /\ Writers(name) # {}
        /\ pc[t] = "ar_wait" /\ Requests(t, name, "read")

\* ---------------------------------------------------------------------------
\* C28: a thread that calls acquire_read while a writer is active or at least
\* one writer is waiting does not become an active reader until no writer is
\* active and none is waiting; the readers that were already active are not
\* affected and run to their release.
\* ---------------------------------------------------------------------------

\* the threads inside acquire_write, between its two updates of the count
WaitingWriters(name) ==
    {t \in LockThreads : pc[t] \in {"aw_wait", "aw_woken"} /\ Requests(t, name, "write")}

C28_ReadersYieldToWriters ==
    /\ [](\A t \in LockThreads, name \in LockNames :
             Holds(t, name, "read") => ENABLED release_read(t))
    /\ [][\A t \in LockThreads, name \in LockNames :
            /\ (~Holds(t, name, "read") /\ Holds(t, name, "read")') =>
                  /\ Writers(name) = {}
                  /\ WaitingWriters(name) = {}
            /\ (Holds(t, name, "read") /\ ~Holds(t, name, "read")') =>
                  /\ pc'[t] \in {"idle", "lock_acquire"}
                  /\ locks'[name].active_readers = locks[name].active_readers - 1]_vars

\* a reader is held back by a writer that waits for an active reader
C28_Witness ==
    \E name \in LockNames, t \in LockThreads :
        /\ pc[t] = "ar_wait" /\ Requests(t, name, "read")
        /\ Writers(name) = {}
        /\ WaitingWriters(name) # {}
        /\ Readers(name) # {}


\* the lock under fair scheduling: a thread inside a call is not left behind
\* for ever, so it takes the step it is at (an acquire, the test after a
\* wake-up, the release at the end of its block); nothing obliges a thread to
\* make a further call
FairRWSpec == RWSpec /\ \A t \in LockThreads : WF_vars(LockStep(t))

\* ---------------------------------------------------------------------------
\* C29: under fair scheduling, and provided every holder eventually releases,
\* every thread that calls acquire_write eventually holds the write lock,
\* whatever stream of readers and other writers keeps arriving.
\* ---------------------------------------------------------------------------

\* thread t has called acquire_write and does not hold the lock yet
InAcquireWrite(t) == \E name \in LockNames : Requests(t, name, "write")

C29_WritersGetTheLock ==
    \A t \in LockThreads : InAcquireWrite(t) ~> (\E name \in LockNames : Holds(t, name, "write"))


\* ---------------------------------------------------------------------------
\* The scoped helpers that the operations of the services run through, in
\* the order of the code
\* ---------------------------------------------------------------------------

\* one method of InMemoryRepository
StoreRead == Scoped("store", "read", <<>>)
StoreWrite == Scoped("store", "write", <<>>)

\* one locked block of IndexService
RegistryRead == Scoped("registry", "read", <<>>)
RegistryWrite == Scoped("registry", "write", <<>>)

\* create_document, update_library, update_document: a get, then the write
CheckThenWrite == StoreRead \o StoreWrite

\* create_chunk, update_chunk: get_document, get_library, then the write
ChunkWrite == StoreRead \o StoreRead \o StoreWrite

\* IndexService.build_index: list_chunks, then the install
BuildSections == StoreRead \o RegistryWrite

\* _get_or_create_index with the Store read inside the lookup's read_lock
GetOrCreateIndex_nested == {Scoped("registry", "read", StoreRead) \o RegistryWrite}

\* IndexService._get_or_create_index: the lookup, and without an entry
\* list_chunks and the install of the fallback index
GetOrCreateIndex == {RegistryRead, RegistryRead \o StoreRead \o RegistryWrite}

\* search_chunks: IndexService.search with the get_chunk of
\* _apply_metadata_filters and of the router, then get_index_info
SearchSections == {g \o StoreRead \o RegistryRead : g \in GetOrCreateIndex}

\* LibraryService.delete_library_cascade: delete_library, then clear_index
CascadeSections == StoreWrite \o RegistryWrite

\* SnapshotService.save: repository.snapshot, then get_index_metadata
SaveSections == StoreRead \o RegistryRead

\* SnapshotService.load: load_snapshot, then rebuild_indices
LoadSections == StoreWrite \o BuildSections

ServicePrograms ==
    {StoreRead, StoreWrite, CheckThenWrite, ChunkWrite, BuildSections, RegistryWrite,
     CascadeSections, SaveSections, LoadSections} \cup SearchSections

ServiceNext ==
    \E t \in LockThreads :
        \/ \E program \in ServicePrograms : service_call(t, program)
        \/ LockStep(t)
ServiceSpec == InitLocks /\ [][ServiceNext]_vars

\* ---------------------------------------------------------------------------
\* C30: no service operation requests the Store lock while it holds the
\* Registry lock, and no interleaving of concurrent service operations
\* reaches a state in which threads are blocked on the two locks for ever.
\* ---------------------------------------------------------------------------

\* thread t cannot get the lock it asks for before thread u has moved: u is
\* inside a block of that lock, or t asks to read and u is a writer that
\* waits for it
WaitsFor(t, u) ==
    \E name \in LockNames, mode \in {"read", "write"} :
        /\ Requests(t, name, mode)
        /\ \/ Holds(u, name, "write")
           \/ mode = "write" /\ Holds(u, name, "read")
           \/ mode = "read" /\ u # t /\ u \in WaitingWriters(name)
                            /\ \E v \in LockThreads : Holds(v, name, "read")
                                                       \/ Holds(v, name, "write")

\* threads that wait for one another in a circle
WaitCycle ==
    \E t \in LockThreads :
        \/ WaitsFor(t, t)
        \/ \E u \in LockThreads \ {t} :
              /\ WaitsFor(t, u)
              /\ \/ WaitsFor(u, t)
                 \/ \E v \in LockThreads \ {t, u} : WaitsFor(u, v) /\ WaitsFor(v, t)

\* a thread sleeps in wait() although its condition no longer holds
MissedWakeUp ==
    \E t \in LockThreads :
        \/ pc[t] = "ar_wait" /\ ~MustWaitToRead(locks[CurrentSection(t).lock])
        \/ pc[t] = "aw_wait" /\ ~MustWaitToWrite(locks[CurrentSection(t).lock])

C30_StoreBeforeRegistryNoDeadlock ==
    /\ \A t \in LockThreads, held \in {"read", "write"}, asked \in {"read", "write"} :
          ~(Holds(t, "registry", held) /\ Requests(t, "store", asked))
    /\ ~WaitCycle
    /\ ~MissedWakeUp

\* a cascade delete has left the Store and waits for the Registry, which a
\* save is reading, and a search waits behind the cascade delete
C30_Witness ==
    \E t, u, v \in LockThreads :
        /\ loc[t].items = CascadeSections
        /\ Requests(t, "registry", "write") /\ pc[t] = "aw_wait"
        /\ loc[u].items = SaveSections /\ Holds(u, "registry", "read")
        /\ loc[v].items \in SearchSections
        /\ Requests(v, "registry", "read") /\ pc[v] = "ar_wait"


(***************************************************************************)
(* Sequential chunk mutations after the index of the library was built:    *)
(* one chunk is stored, a second one may be created, embeddings and        *)
(* metadata are updated, chunks and the document are deleted, and          *)
(* searches follow.                                                        *)
(***************************************************************************)
StaleVectors == {<<0, 1>>, <<1, 1>>}
StalePairs == {<<"linear", "cosine">>, <<"kdtree", "euclidean">>}

InitStale ==
    /\ libraries = {1} /\ documents = {1}
    /\ chunks = <<1>>
    /\ libHeap = <<[embedding_dim |-> 2]>>
    /\ docHeap = <<[library_id |-> 1]>>
    /\ chunkHeap = <<[document_id |-> 1, embedding |-> <<1, 0>>, metadata |-> {}]>>
    /\ indices = <<>> /\ index_meta = <<>>
    /\ pc = [t \in Threads |-> "idle"]
    /\ loc = [t \in Threads |-> Idle]
    /\ explicit = [l \in LibIds |-> NoPair]
    /\ admitted = [l \in LibIds |-> 2]
    /\ files = NoFile
    /\ ev = NoEvent
    /\ locks = [name \in LockNames |-> Unlocked]
    /\ objects = NoObjects

StaleNext ==
    \/ \E l \in LibIds, d \in DocIds, e \in Embeddings :
           create_chunk(Client, l, d, e, {})
    \/ v_get_library(Client)
    \/ v_check(Client)
    \/ cc_insert(Client)
    \/ \E c \in ChunkIds : delete_chunk(Client, c)
    \/ \E c \in ChunkIds, e \in StaleVectors : update_chunk(Client, c, e, FALSE, {})
    \/ \E c \in ChunkIds, m \in Metas : update_chunk(Client, c, <<>>, TRUE, m)
    \/ uc_get_document(Client)
    \/ uc_assign(Client)
    \/ uc_metadata(Client)
    \/ uc_upsert(Client)
    \/ \E d \in DocIds : delete_document(Client, d)
    \/ \E l \in LibIds, b \in StalePairs : build_index(Client, l, b[1], b[2])
    \/ bi_install(Client)
    \/ \E l \in LibIds : clear_index(Client, l)
    \/ \E l \in LibIds, v \in RankQueries, k \in 1..MaxChunks, f \in Filters :
           search_chunks(Client, l, v, k, f)
    \/ s_list_chunks(Client)
    \/ s_install(Client)
    \/ s_filter(Client)
    \/ e_get_chunk(Client)
    \/ e_index_info(Client)
StaleSpec == InitStale /\ [][StaleNext]_vars

\* ---------------------------------------------------------------------------
\* C31: create_chunk, update_chunk (of the embedding or of the metadata),
\* delete_chunk and delete_document never change the Registry's index map or
\* metadata map, and a search after such a mutation is answered from the
\* vectors and ids that the last build_index or fallback installation
\* captured, until build_index or clear_index is called for the library.
\* ---------------------------------------------------------------------------

\* the step belongs to a chunk mutation or to a delete_document
ChunkMutationStep ==
    \/ ev'.op \in {"create_chunk", "update_chunk", "delete_chunk", "delete_document"}
    \/ \E t \in Threads : \/ loc[t].op \in {"create_chunk", "update_chunk"}
                          \/ loc'[t].op \in {"create_chunk", "update_chunk"}

C31_MutationsLeaveIndexStale ==
    [][/\ ChunkMutationStep => UNCHANGED <<indices, index_meta>>
       /\ \A t \in Threads :
            (SearchReturnStep(t) /\ pc[t] = "idle" /\ loc'[t].lib \in DOMAIN indices) =>
               LET index == indices[loc'[t].lib]
               IN  /\ UNCHANGED <<indices, index_meta>>
                   /\ Ranked(ev'.ids, index, loc'[t].vec, loc'[t].k)
                   /\ loc'[t].filters = {} =>
                         Len(ev'.ids) = Min(loc'[t].k, Len(index.ids))]_vars

\* a search has returned a chunk that was deleted after the build, and one
\* whose embedding was changed after the build
C31_Witness ==
    /\ ev.op = "search"
    /\ ev.id \in DOMAIN indices
    /\ \E c \in Range(ev.ids) : c \notin Range(chunks)
    /\ \E c \in Range(ev.ids) : VectorOf(indices[ev.id], c) # chunkHeap[c].embedding


\* ---------------------------------------------------------------------------
\* C32: after a successful load(P) the Registry holds an entry exactly for
\* the library ids that P's indices mapping lists with a valid pair: an index
\* installed before the load for a library that P does not list does not
\* survive the load.
\* ---------------------------------------------------------------------------

\* the library ids that the file lists with a valid pair
ListedWithValidPair ==
    {l \in DOMAIN files.indices :
        <<files.indices[l].algorithm, files.indices[l].metric>> \in CompatiblePairs}

C32_LoadReplacesRegistry ==
    (ev.op = "load" /\ ev.res = "ok") =>
        /\ DOMAIN indices = ListedWithValidPair
        /\ DOMAIN index_meta = ListedWithValidPair


-----------------------------------------------------------------------------
(***************************************************************************)
(* The overfetch size (QueryKSpec).  A caller holds k and the filters of   *)
(* a search request (SearchRequestDTO admits 1 <= k <= 100) and calls      *)
(* _calculate_query_k(k, bool(filters)); the event of the call carries     *)
(* the value returned.                                                     *)
(***************************************************************************)
MaxQueryK == 60

InitQueryK ==
    /\ Init!1 /\ Init!2 /\ Init!3 /\ Init!4
    /\ \E k \in 1..MaxQueryK, f \in Filters :
          loc = [t \in Threads |-> IF t = Client
                                   THEN [Idle EXCEPT !.k = k, !.filters = f] ELSE Idle]
    /\ explicit = [l \in LibIds |-> NoPair]
    /\ admitted = [l \in LibIds |-> None]
    /\ files = NoFile
    /\ ev = NoEvent
    /\ locks = [name \in LockNames |-> Unlocked]
    /\ objects = NoObjects

\* query_k = self._calculate_query_k(k, bool(filters))
call_calculate_query_k(t) ==
    /\ pc[t] = "idle"
    /\ ev' = Event("_calculate_query_k", t,
                   _calculate_query_k(loc[t].k, loc[t].filters # {}), "returned")
    /\ UNCHANGED <<store, registry, pc, loc, explicit, admitted, locks, objects, files>>

QueryKNext == call_calculate_query_k(Client)
QueryKSpec == InitQueryK /\ [][QueryKNext]_vars

\* C33: for every k >= 1 the overfetch size equals min(max(k, k*m), k+b)
\* with m = 3, b = 50 when no filters are given and m = 6, b = 100 when
\* filters are given, and it is never smaller than k.
C33_OverfetchSize ==
    \A t \in Threads :
        (ev.op = "_calculate_query_k" /\ ev.t = t /\ loc[t].k >= 1) =>
            LET k == loc[t].k
                m == IF loc[t].filters = {} THEN 3 ELSE 6
                b == IF loc[t].filters = {} THEN 50 ELSE 100
            IN  /\ ev.id = Min(Max(k, k * m), k + b)
                /\ ev.id >= k

\* both branches of the min were taken, with and without filters
C33_Witness ==
    /\ ev.op = "_calculate_query_k"
    /\ loc[Client].filters # {}
    /\ loc[Client].k * 6 > loc[Client].k + 100
    /\ ev.id = loc[Client].k + 100


-----------------------------------------------------------------------------
(***************************************************************************)
(* The IndexService with its VectorIndex objects (ObjectSpec).  Elsewhere  *)
(* an index is the value of its fields; here every object that             *)
(* _create_index or LinearIndex(...) constructs has a place in             *)
(* objects.heap, objects.ref[L] is the object that _indices[L] refers to,  *)
(* a thread holds the object it works on in loc[t].pos, and index.build    *)
(* and index.query are steps of their own on the object: a query runs      *)
(* after the read lock of _get_or_create_index was released.  indices      *)
(* stays the value of the object that _indices refers to; a searcher keeps *)
(* in loc[t].idx the fields the object had when it took it from _indices.  *)
(***************************************************************************)
MaxObjects == 3

\* the fields of the object
Deref(o) == objects.heap[o]

\* VectorIndex.__init__ of the class _create_index chooses
NewObject(algorithm, metric) ==
    [kind |-> algorithm, metric |-> metric, ids |-> <<>>, vectors |-> <<>>]

\* build_index that takes the instance _indices holds for the library, when
\* there is one, instead of a new one
bi_create_index_reusing(t, library_id, algorithm, metric) ==
    /\ pc[t] = "idle"
    /\ library_id \in DOMAIN libHeap
    /\ _create_index(Lower(algorithm), Lower(metric)) = "ok"
    /\ library_id \in DOMAIN objects.ref \/ Len(objects.heap) < MaxObjects
    /\ objects' = IF library_id \in DOMAIN objects.ref THEN objects
                  ELSE [objects EXCEPT !.heap = Append(@, NewObject(Lower(algorithm),
                                                                  Lower(metric)))]
    /\ loc' = [loc EXCEPT ![t] = [Idle EXCEPT !.op = "build_index", !.lib = library_id,
                  !.pos = IF library_id \in DOMAIN objects.ref
                          THEN objects.ref[library_id] ELSE Len(objects.heap) + 1]]
    /\ Goto(t, "bi_build")
    /\ ev' = NoEvent
    /\ UNCHANGED <<store, registry, explicit, admitted, locks, files>>

\* IndexService.build_index: index = self._create_index(algorithm, metric)
bi_create_index(t, library_id, algorithm, metric) ==
    /\ pc[t] = "idle"
    /\ library_id \in DOMAIN libHeap
    /\ _create_index(Lower(algorithm), Lower(metric)) = "ok"
    /\ Len(objects.heap) < MaxObjects
    /\ objects' = [objects EXCEPT !.heap = Append(@, NewObject(Lower(algorithm),
                                                              Lower(metric)))]
    /\ loc' = [loc EXCEPT ![t] = [Idle EXCEPT !.op = "build_index", !.lib = library_id,
                                              !.pos = Len(objects.heap) + 1]]
    /\ Goto(t, "bi_build")
    /\ ev' = NoEvent
    /\ UNCHANGED <<store, registry, explicit, admitted, locks, files>>

\* IndexService.build_index: list_chunks and index.build(vectors, ids) on
\* the object the thread holds
bi_build(t) ==
    /\ pc[t] = "bi_build"
    /\ IF _validate_inputs_raises(valid_vectors(loc[t].lib))
       THEN /\ ev' = Event("build_index", t, loc[t].lib, "ValueError")
            /\ Return(t)
            /\ UNCHANGED objects
       ELSE /\ objects' = [objects EXCEPT !.heap[loc[t].pos] =
                              [@ EXCEPT !.ids = valid_ids(loc[t].lib),
                                        !.vectors = valid_vectors(loc[t].lib)]]
            /\ Goto(t, "bi_store")
            /\ ev' = NoEvent
            /\ UNCHANGED loc
    /\ UNCHANGED <<store, registry, explicit, admitted, locks, files>>

\* self._indices[library_id] = index and its metadata, under the write lock
StoreObject(library_id, o, heap) ==
    /\ InstallEntry(library_id, heap[o])
    /\ objects' = [heap |-> heap, ref |-> DictSet(objects.ref, library_id, o)]

\* IndexService.build_index: the write-locked block
bi_store(t) ==
    /\ pc[t] = "bi_store"
    /\ StoreObject(loc[t].lib, loc[t].pos, objects.heap)
    /\ explicit' = [explicit EXCEPT ![loc[t].lib] =
                       <<Deref(loc[t].pos).kind, Deref(loc[t].pos).metric>>]
    /\ ev' = [Event("build_index", t, loc[t].lib, "ok") EXCEPT !.got = loc[t].pos]
    /\ Return(t)
    /\ UNCHANGED <<store, admitted, locks, files>>

\* IndexService.clear_index: both pops under the write lock
clear_object(t, library_id) ==
    /\ pc[t] = "idle"
    /\ library_id \in DOMAIN libHeap
    /\ ClearEntry(library_id)
    /\ objects' = [objects EXCEPT !.ref = DictPop(@, library_id)]
    /\ ev' = Event("clear_index", t, library_id, "ok")
    /\ UNCHANGED <<store, pc, loc, admitted, locks, files>>

\* IndexService.search with k >= 1 and no filters, up to the end of the
\* read-locked block of _get_or_create_index
goc_get(t, library_id, vector, k) ==
    /\ pc[t] = "idle"
    /\ library_id \in DOMAIN libHeap
    /\ k >= 1
    /\ IF library_id \in DOMAIN objects.ref
       THEN /\ loc' = [loc EXCEPT ![t] = [Idle EXCEPT !.op = "search",
                          !.lib = library_id, !.vec = vector, !.k = k,
                          !.pos = objects.ref[library_id],
                          !.idx = Deref(objects.ref[library_id])]]
            /\ Goto(t, "o_query")
       ELSE /\ loc' = [loc EXCEPT ![t] = [Idle EXCEPT !.op = "search",
                          !.lib = library_id, !.vec = vector, !.k = k]]
            /\ Goto(t, "goc_build")
    /\ ev' = NoEvent
    /\ UNCHANGED <<store, registry, explicit, admitted, locks, objects, files>>

\* _get_or_create_index without an entry: list_chunks, then LinearIndex(...)
\* and index.build on the new object
goc_build(t) ==
    /\ pc[t] = "goc_build"
    /\ LET ids == valid_ids(loc[t].lib)
           vectors == valid_vectors(loc[t].lib)
       IN  IF ids = <<>>
           THEN /\ ev' = Event("search", t, loc[t].lib, "ok")
                /\ Return(t)
                /\ UNCHANGED objects
           ELSE IF _validate_inputs_raises(vectors)
           THEN /\ ev' = Event("search", t, loc[t].lib, "ValueError")
                /\ Return(t)
                /\ UNCHANGED objects
           ELSE /\ Len(objects.heap) < MaxObjects
                /\ objects' = [objects EXCEPT !.heap =
                                  Append(@, LinearIndex(default_metric, vectors, ids))]
                /\ loc' = [loc EXCEPT ![t].pos = Len(objects.heap) + 1]
                /\ Goto(t, "goc_store")
                /\ ev' = NoEvent
    /\ UNCHANGED <<store, registry, explicit, admitted, locks, files>>

\* _get_or_create_index: the fallback index is cached under the write lock
goc_store(t) ==
    /\ pc[t] = "goc_store"
    /\ StoreObject(loc[t].lib, loc[t].pos, objects.heap)
    /\ loc' = [loc EXCEPT ![t].idx = Deref(loc[t].pos)]
    /\ Goto(t, "o_query")
    /\ ev' = NoEvent
    /\ UNCHANGED <<store, explicit, admitted, locks, files>>

\* IndexService.search: results = index.query(vector, query_k) on the
\* object it holds, and return results[:k]
o_query(t) ==
    /\ pc[t] = "o_query"
    /\ LET query_k == _calculate_query_k(loc[t].k, FALSE)
           index == Deref(loc[t].pos)
       IN  IF IndexQueryRaises(index, loc[t].vec, query_k)
           THEN ev' = [Event("search", t, loc[t].lib, "ValueError")
                          EXCEPT !.got = loc[t].pos]
           ELSE ev' = [Event("search", t, loc[t].lib, "ok") EXCEPT !.got = loc[t].pos,
                          !.ids = Take(IndexQuery(index, loc[t].vec, query_k), loc[t].k)]
    /\ Return(t)
    /\ UNCHANGED <<store, registry, explicit, admitted, locks, objects, files>>

ObjectStep(t) ==
    \/ \E l \in LibIds, b \in StalePairs : bi_create_index(t, l, b[1], b[2])
    \/ bi_build(t)
    \/ bi_store(t)
    \/ \E l \in LibIds : clear_object(t, l)
    \/ \E l \in LibIds, v \in RankQueries : goc_get(t, l, v, 1)
    \/ goc_build(t)
    \/ goc_store(t)
    \/ o_query(t)

\* the requests of all threads to the IndexService next to the update_chunk
\* and delete_chunk calls of one client
ObjectNext ==
    \/ \E t \in Threads : ObjectStep(t)
    \/ \E c \in ChunkIds, e \in StaleVectors : update_chunk(Client, c, e, FALSE, {})
    \/ uc_get_document(Client)
    \/ v_get_library(Client)
    \/ v_check(Client)
    \/ uc_assign(Client)
    \/ uc_upsert(Client)
    \/ \E c \in ChunkIds : delete_chunk(Client, c)
ObjectSpec == InitStale /\ [][ObjectNext]_vars

\* the objects a thread took from _indices, or stored there, and may still
\* query
Borrowed == {loc[t].pos : t \in {u \in Threads : pc[u] = "o_query"}}

\* the objects that have been stored in _indices and are still referred to
Installed == {objects.ref[l] : l \in DOMAIN objects.ref} \cup Borrowed

\* C34: an index instance is never modified after it has been installed in
\* the Registry: build is only called on an instance that is not reachable
\* from the Registry, the Registry's entry is the instance as it was built,
\* and a search that borrowed the instance under the read lock and queries
\* it after releasing the lock finds the contents it had when borrowed,
\* while build_index, clear_index and chunk updates run concurrently.
C34_InstalledInstancesAreFrozen ==
    /\ [](\A l \in DOMAIN indices :
             l \in DOMAIN objects.ref /\ indices[l] = Deref(objects.ref[l]))
    /\ [](\A t \in Threads : pc[t] = "o_query" => Deref(loc[t].pos) = loc[t].idx)
    /\ [][/\ \A o \in Installed : Deref(o)' = Deref(o)
          /\ \A t \in Threads : (pc[t] = "bi_build" /\ pc'[t] = "bi_store") =>
                                    loc[t].pos \notin Installed]_vars

\* a search queries an instance that another thread's build_index has
\* replaced in the Registry meanwhile, after a chunk update
C34_Witness ==
    /\ ev.op = "search" /\ ev.res = "ok" /\ ev.ids # <<>>
    /\ ev.id \in DOMAIN objects.ref
    /\ objects.ref[ev.id] # ev.got
    /\ Deref(objects.ref[ev.id]).vectors # Deref(ev.got).vectors


-----------------------------------------------------------------------------
(***************************************************************************)
(* The two maps of the Registry under every writer (PairSpec): explicit    *)
(* builds, fallback searches and clears of all threads next to the         *)
(* rebuild_indices of one caller, on a library that holds a chunk.         *)
(***************************************************************************)
PairNext ==
    \/ \E t \in Threads : IndexStep(t) \/ SearchStep(t)
    \/ RebuildStep(Client)
PairSpec == InitStale /\ [][PairNext]_vars

\* C35: in every state reachable by any interleaving of build_index, search
\* (fallback installation), clear_index and rebuild_indices, observed while
\* no thread holds the Registry's writer lock, the index map and the
\* metadata map have the same set of library ids, and the metadata recorded
\* for each library equals the kind() and metric() of the index stored for it.
C35_MapsAgree ==
    /\ DOMAIN indices = DOMAIN index_meta
    /\ \A l \in DOMAIN indices :
          index_meta[l] = [algorithm |-> indices[l].kind, metric |-> indices[l].metric]

\* a thread is about to install, for a library that has an entry, an index
\* of another metric than the entry's, after a clear_index of that library
C35_Witness ==
    \E l \in DOMAIN indices, t \in Threads :
        /\ pc[t] \in {"bi_install", "s_install"}
        /\ loc[t].lib = l
        /\ loc[t].idx.metric # indices[l].metric


-----------------------------------------------------------------------------
(***************************************************************************)
(* The Registry next to the cascade delete of a library (CascadeSpec):     *)
(* builds, clears and searches of all threads on a library that holds a    *)
(* chunk, and delete_library_cascade of that library.                      *)
(***************************************************************************)
CascadeNext ==
    \E t \in Threads :
        \/ \E l \in LibIds : delete_library_cascade(t, l)
        \/ dl_clear_index(t)
        \/ \E l \in LibIds, b \in StalePairs : build_index(t, l, b[1], b[2])
        \/ bi_install(t)
        \/ \E l \in LibIds : clear_index(t, l)
        \/ SearchStep(t)
CascadeSpec == InitStale /\ [][CascadeNext]_vars

\* C36: in every state reachable by any sequence or interleaving of service
\* operations, every library id that has an entry in the Registry names a
\* library that exists in the Store: neither build_index nor a fallback
\* search installs an entry for a library that does not exist or that has
\* been cascade-deleted, including when the build or search was in flight
\* during the delete.
C36_EntriesNameLibraries ==
    /\ DOMAIN indices \subseteq libraries
    /\ DOMAIN index_meta \subseteq libraries


-----------------------------------------------------------------------------
(***************************************************************************)
(* Updates next to deletes (UpdateSpec).  update_library and               *)
(* update_document read the entity with get_library / get_document, set    *)
(* the given fields on the object and hand it to the repository, whose     *)
(* update_library / update_document assign it to its id under the write    *)
(* lock, as update_chunk does.                                             *)
(***************************************************************************)
\* LibraryService.update_library up to its repository.update_library
update_library(t, library_id) ==
    /\ pc[t] = "idle"
    /\ library_id \in DOMAIN libHeap
    /\ IF library_id \notin libraries
       THEN /\ ev' = Event("update_library", t, library_id, "NotFound")
            /\ UNCHANGED <<pc, loc>>
       ELSE /\ Goto(t, "ul_upsert")
            /\ loc' = [loc EXCEPT ![t] = [Idle EXCEPT !.op = "update_library",
                                                      !.lib = library_id]]
            /\ ev' = NoEvent
    /\ UNCHANGED <<store, registry, explicit, admitted, locks, objects, files>>

\* InMemoryRepository.update_library: self._libraries[library.id] = library
ul_upsert(t) ==
    /\ pc[t] = "ul_upsert"
    /\ libraries' = libraries \cup {loc[t].lib}
    /\ ev' = Event("update_library", t, loc[t].lib, "ok")
    /\ Return(t)
    /\ UNCHANGED <<documents, chunks, libHeap, docHeap, chunkHeap, registry,
                   explicit, admitted, locks, objects, files>>

\* DocumentService.update_document up to its repository.update_document
update_document(t, document_id) ==
    /\ pc[t] = "idle"
    /\ document_id \in DOMAIN docHeap
    /\ IF document_id \notin documents
       THEN /\ ev' = Event("update_document", t, document_id, "NotFound")
            /\ UNCHANGED <<pc, loc>>
       ELSE /\ Goto(t, "ud_upsert")
            /\ loc' = [loc EXCEPT ![t] = [Idle EXCEPT !.op = "update_document",
                                                      !.doc = document_id]]
            /\ ev' = NoEvent
    /\ UNCHANGED <<store, registry, explicit, admitted, locks, objects, files>>

\* InMemoryRepository.update_document: self._documents[document.id] = document
ud_upsert(t) ==
    /\ pc[t] = "ud_upsert"
    /\ documents' = documents \cup {loc[t].doc}
    /\ ev' = Event("update_document", t, loc[t].doc, "ok")
    /\ Return(t)
    /\ UNCHANGED <<libraries, chunks, libHeap, docHeap, chunkHeap, registry,
                   explicit, admitted, locks, objects, files>>

UpdateNext ==
    \E t \in Threads :
        \/ \E l \in LibIds : update_library(t, l)
        \/ ul_upsert(t)
        \/ \E d \in DocIds : update_document(t, d)
        \/ ud_upsert(t)
        \/ \E c \in ChunkIds, e \in StaleVectors : update_chunk(t, c, e, FALSE, {})
        \/ \E c \in ChunkIds, m \in Metas : update_chunk(t, c, <<>>, TRUE, m)
        \/ uc_get_document(t)
        \/ v_get_library(t)
        \/ v_check(t)
        \/ uc_assign(t)
        \/ uc_metadata(t)
        \/ uc_upsert(t)
        \/ \E l \in LibIds : delete_library_cascade(t, l)
        \/ dl_clear_index(t)
        \/ \E d \in DocIds : delete_document(t, d)
        \/ \E c \in ChunkIds : delete_chunk(t, c)
UpdateSpec == InitStale /\ [][UpdateNext]_vars

\* C37: once a delete of a library, document or chunk has completed, the
\* deleted entity never reappears in the Store through an update_library,
\* update_document or update_chunk call that read the entity before the
\* deletion and writes it back afterwards.
C37_DeletedStayDeleted ==
    [][\A t \in Threads :
          (/\ pc[t] \in {"ul_upsert", "ud_upsert", "uc_upsert"} /\ pc'[t] = "idle"
           /\ \A u \in Threads : pc[u] # "dl_clear_index") =>
              /\ libraries' \subseteq libraries
              /\ documents' \subseteq documents
              /\ Range(chunks') \subseteq Range(chunks)]_vars


\* ---------------------------------------------------------------------------
\* C38: the reader-writer lock has no lost wake-up: whenever no writer is
\* active, no reader is active and at least one thread is blocked in
\* acquire_read or acquire_write, some blocked thread has been notified and
\* can acquire, so under fair scheduling the lock never stays free for ever
\* while threads wait on it.
\* ---------------------------------------------------------------------------

\* no writer is active and no reader is active
Free(name) == ~locks[name].writer_active /\ locks[name].active_readers = 0

\* the threads inside the while loop of an acquire of this lock
Blocked(name) ==
    {t \in LockThreads : /\ pc[t] \in {"ar_wait", "ar_woken", "aw_wait", "aw_woken"}
                         /\ CurrentSection(t).lock = name}

\* the thread's wait() has returned and its condition lets it through
NotifiedAndFree(t) ==
    \/ pc[t] = "ar_woken" /\ ~MustWaitToRead(locks[CurrentSection(t).lock])
    \/ pc[t] = "aw_woken" /\ ~MustWaitToWrite(locks[CurrentSection(t).lock])

FreeWithWaiters(name) == Free(name) /\ Blocked(name) # {}

C38_NoLostWakeUp ==
    /\ [](\A name \in LockNames :
             FreeWithWaiters(name) => \E t \in Blocked(name) : NotifiedAndFree(t))
    /\ \A name \in LockNames : FreeWithWaiters(name) ~> ~FreeWithWaiters(name)

\* the last reader has left: the writer that waited for it has been woken
\* and a reader that was woken with it sleeps again behind the writer
C38_Witness ==
    \E name \in LockNames, r, w \in LockThreads :
        /\ Free(name)
        /\ pc[r] = "ar_wait" /\ CurrentSection(r).lock = name
        /\ pc[w] = "aw_woken" /\ CurrentSection(w).lock = name


-----------------------------------------------------------------------------
(***************************************************************************)
(* LSH builds over NumLSH points on and between the axes, with duplicates  *)
(* and opposite points, listed in the order of their ids or against it.    *)
(***************************************************************************)
NumLSH == 3
LSHPoints == {<<1, 0>>, <<0, 1>>, <<-1, 0>>, <<1, 1>>, <<0, 0>>}
LSHQueries == LSHPoints \cup {<<0, -1>>, <<2, 0>>}

InitLSH == InitPoints(NumLSH, LSHPoints)

LSHNext ==
    \/ \E l \in LibIds : build_index(Client, l, "lsh", "cosine")
    \/ bi_install(Client)
    \/ \E l \in LibIds : clear_index(Client, l)
LSHSpec == InitLSH /\ [][LSHNext]_vars

\* the tables in which the probes of the query reach the entry at position p
TablesReaching(index, q, p) ==
    {i \in 0..(lsh_num_tables - 1) : p \in Range(LSHProbes(index, q, i))}

\* C39: for an LSH index built over vectors with distinct ids, query(q, k)
\* returns only ids that were given to build, each at most once although
\* every vector is stored in all num_tables tables and may be reached by
\* several probes, and every stored vector equal to q is among the scored
\* candidates because its signature equals q's signature in every table.
C39_LSHReturnsBuiltIdsOnce ==
    \A l \in DOMAIN indices :
        indices[l].kind = "lsh" =>
            LET index == indices[l]
            IN  \A q \in LSHQueries, k \in 1..(NumLSH + 1) :
                    LET result == LSHQuery(index, q, k)
                        candidates == LSHCandidates(index, q, lsh_num_tables)
                    IN  /\ Range(result) \subseteq Range(index.ids)
                        /\ \A i, j \in DOMAIN result : i # j => result[i] # result[j]
                        /\ \A p \in DOMAIN index.vectors :
                              index.vectors[p] = q =>
                                  /\ \A i \in 0..(lsh_num_tables - 1) :
                                        _hash(index.vectors[p], LSHPlanes(Len(q), i))
                                            = _hash(q, LSHPlanes(Len(q), i))
                                  /\ p \in Range(candidates)
                                  /\ k >= Len(index.ids) => index.ids[p] \in Range(result)

\* an index that holds the query vector under two ids, both reached in
\* every table, next to a vector that no probe of the query reaches
C39_Witness ==
    /\ 1 \in DOMAIN indices /\ indices[1].kind = "lsh"
    /\ \E q \in LSHQueries :
           LET index == indices[1]
           IN  /\ \E p, r \in DOMAIN index.vectors :
                      /\ p # r /\ index.vectors[p] = q /\ index.vectors[r] = q
                      /\ Cardinality(TablesReaching(index, q, p)) = lsh_num_tables
                      /\ index.ids[p] \in Range(LSHQuery(index, q, NumLSH))
                      /\ index.ids[r] \in Range(LSHQuery(index, q, NumLSH))
               /\ \E p \in DOMAIN index.vectors :
                      /\ TablesReaching(index, q, p) = {}
                      /\ index.ids[p] \notin Range(LSHQuery(index, q, NumLSH))

=============================================================================
